---- MODULE Spec2Model ----
(***************************************************************************)
(* A model of ufo2ft's mark feature writer                                 *)
(* (Lib/ufo2ft/featureWriters/markFeatureWriter.py) and of the production  *)
(* names of its post processor (Lib/ufo2ft/postProcessor.py).              *)
(*                                                                         *)
(* Strings are sequences of one-character strings, so that prefixes,       *)
(* suffixes, digits and lexicographic order are computed, not assumed.     *)
(* Coordinates are integers counting half font units (3 stands for 1.5),   *)
(* so that rounding to font units is a real conversion.                    *)
(***************************************************************************)
EXTENDS Integers, Sequences, FiniteSets, TLC

VARIABLES
    \* -- parseAnchorName / NamedAnchor.__init__ on one name
    anchorName, libData, parsed, named,
    \* -- colorGraph on one adjacency map
    adjacency, colorGroups,
    \* -- one run of the feature writer: its inputs (the font, the GDEF glyph
    \* classes, options.groupMarkClasses, context.todo), the feature file, the
    \* position of the run, the exception raised if any, and the context
    font, gdefClasses, groupMarkClassesOption, todo, feaFile, pc, raised, context,
    \* -- the last call of _defineMarkClass on the registry feaFile.markClasses
    defineCall,
    \* -- _makeMarkClassDefinitions called on the registry feaFile.markClasses:
    \* the mark glyphs grouped by anchor name, and the record of each call
    markGlyphSets, classRuns,
    \* -- _groupMarkClasses on one dict mark glyph -> set of mark classes
    markGlyphClasses, classGroups,
    \* -- _isAboveMark / _isBelowMark on one anchor
    markAnchor, aboveBelow,
    \* -- the last call of _getAbvmGlyphs on the font and the feature file
    abvmCall,
    \* -- PostProcessor._build_production_names: otf.getGlyphOrder(), the names
    \* of self.glyphSet, self._postscriptNames, the number of glyphs the loop
    \* has done, seen, rename_map, and the record of each call of _unique_name
    glyphOrder, sourceGlyphs, postscriptNames, position, seen, rename_map,
    uniqueCalls

parseVars == <<anchorName, libData, parsed, named>>
colorVars == <<adjacency, colorGroups>>
inputVars == <<font, gdefClasses, groupMarkClassesOption, todo>>
writerVars == <<inputVars, feaFile, pc, raised, context>>
classVars == <<markGlyphSets, classRuns>>
groupVars == <<markGlyphClasses, classGroups>>
aboveVars == <<markAnchor, aboveBelow>>
productionVars ==
    <<glyphOrder, sourceGlyphs, postscriptNames, position, seen, rename_map, uniqueCalls>>
vars ==
    <<parseVars, colorVars, writerVars, defineCall, classVars, groupVars, aboveVars,
      abvmCall, productionVars>>

(***************************************************************************)
(* Characters and strings                                                  *)
(***************************************************************************)
Letters ==
    { "a", "b", "c", "d", "e", "f", "g", "h", "i", "j", "k", "l", "m",
      "n", "o", "p", "q", "r", "s", "t", "u", "v", "w", "x", "y", "z",
      "C", "M" }
Digits == { "0", "1", "2", "3", "4", "5", "6", "7", "8", "9" }

\* str.isalpha() / the regex class \d, on one character
isalpha(c) == c \in Letters
isdigit(c) == c \in Digits

\* The characters of the model in code point order (ASCII).
CharOrder ==
    << "*", ".", "0", "1", "2", "3", "4", "5", "6", "7", "8", "9", "C", "M",
       "_", "a", "b", "c", "d", "e", "f", "g", "h", "i", "j", "k", "l", "m",
       "n", "o", "p", "q", "r", "s", "t", "u", "v", "w", "x", "y", "z" >>
ord(c) == CHOOSE i \in 1..Len(CharOrder) : CharOrder[i] = c

\* Python's < on two strings: lexicographic by code point, a proper prefix first.
RECURSIVE StrLess(_, _)
StrLess(s, t) ==
    IF t = <<>> THEN FALSE
    ELSE IF s = <<>> THEN TRUE
    ELSE IF s[1] # t[1] THEN ord(s[1]) < ord(t[1])
    ELSE StrLess(Tail(s), Tail(t))

startswith(s, p) == Len(p) <= Len(s) /\ SubSeq(s, 1, Len(p)) = p
endswith(s, p) == Len(p) <= Len(s) /\ SubSeq(s, Len(s) - Len(p) + 1, Len(s)) = p

\* int(s) of a run of decimal digits
DigitVal(c) == ord(c) - ord("0")
RECURSIVE int(_)
int(s) == IF s = <<>> THEN 0 ELSE 10 * int(SubSeq(s, 1, Len(s) - 1)) + DigitVal(s[Len(s)])

\* str(n) of a natural number
RECURSIVE str(_)
str(n) ==
    IF n < 10 THEN << CharOrder[ord("0") + n] >>
    ELSE str(n \div 10) \o << CharOrder[ord("0") + (n % 10)] >>

\* All strings over alphabet A of length lo..hi
StringsOver(A, lo, hi) == UNION { [1..n -> A] : n \in lo..hi }

(***************************************************************************)
(* parseAnchorName and NamedAnchor                                         *)
(***************************************************************************)
MARK_PREFIX == << "_" >>
LIGA_SEPARATOR == << "_" >>

\* "number = None"
None == -1

\* The length of the longest suffix of s made of digits: group 1 of
\* LIGA_NUM_RE = r".*?(\d+)$" (the lazy prefix leaves the longest digit run).
RECURSIVE TrailingDigits(_)
TrailingDigits(s) ==
    IF s = <<>> \/ ~isdigit(s[Len(s)]) THEN 0
    ELSE 1 + TrailingDigits(SubSeq(s, 1, Len(s) - 1))

\* s.rstrip(chars): drop the trailing characters that occur in chars
RECURSIVE rstrip(_, _)
rstrip(s, chars) ==
    IF s = <<>> \/ s[Len(s)] \notin { chars[i] : i \in 1..Len(chars) } THEN s
    ELSE rstrip(SubSeq(s, 1, Len(s) - 1), chars)

\* re.sub(r"\..*", "", s): cut s at its first "."
RECURSIVE CutAtDot(_)
CutAtDot(s) ==
    IF s = <<>> \/ s[1] = "." THEN <<>> ELSE << s[1] >> \o CutAtDot(Tail(s))

\* The value parseAnchorName returns, or the exception it raises.
Raise(what) ==
    [ error |-> what, isMark |-> FALSE, key |-> <<>>, number |-> None,
      isContextual |-> FALSE, isIgnorable |-> FALSE ]

\* The state before the name is parsed, and of the specifications that parse none
NotParsed == Raise("not parsed")
ParseIdle ==
    anchorName = <<>> /\ libData = FALSE /\ parsed = NotParsed /\ named = NotParsed

\* (mutant) an empty key counts as ignorable too
Parsed_EmptyKeyIgnorable(isMark, key, number, isContextual) ==
    [ error |-> "none", isMark |-> isMark, key |-> key, number |-> number,
      isContextual |-> isContextual,
      isIgnorable |-> (key = <<>> \/ ~isalpha(key[1])) ]

\* The tuple returned on success.  The field isIgnorable holds the truth value
\* of Python's "key and not key[0].isalpha()" (the empty string is false).
Parsed(isMark, key, number, isContextual) ==
    [ error |-> "none", isMark |-> isMark, key |-> key, number |-> number,
      isContextual |-> isContextual,
      isIgnorable |-> (key # <<>> /\ ~isalpha(key[1])) ]

\* (mutant) the trailing digits are a number whatever precedes them
LigaSplit_NoSeparatorCheck(anchor) ==
    LET nd == TrailingDigits(anchor)
        numstr == SubSeq(anchor, Len(anchor) - nd + 1, Len(anchor))
        stripped == rstrip(anchor, numstr)
    IN  IF nd = 0 THEN [ key |-> anchor, number |-> None ]
        ELSE [ key |-> IF endswith(stripped, LIGA_SEPARATOR)
                       THEN SubSeq(stripped, 1, Len(stripped) - Len(LIGA_SEPARATOR))
                       ELSE stripped,
               number |-> int(numstr) ]

\* The key and the number of a name: the match of ligaNumRE and what follows it.
LigaSplit(anchor) ==
    LET nd == TrailingDigits(anchor)
        numstr == SubSeq(anchor, Len(anchor) - nd + 1, Len(anchor))
        stripped == rstrip(anchor, numstr)
    IN  IF nd = 0 THEN [ key |-> anchor, number |-> None ]
        ELSE IF endswith(stripped, LIGA_SEPARATOR)
        THEN [ key |-> SubSeq(stripped, 1, Len(stripped) - Len(LIGA_SEPARATOR)),
               number |-> int(numstr) ]
        ELSE [ key |-> anchor, number |-> None ]

\* name: a non-empty string; lib: whether the anchor's lib data holds the
\* GPOS context key.
parseAnchorName(name, lib) ==
    LET isContextual == name[1] = "*" /\ lib
        anchor == IF isContextual THEN CutAtDot(Tail(name)) ELSE name
        key == LigaSplit(anchor).key
        number == LigaSplit(anchor).number
    IN  IF startswith(anchor, MARK_PREFIX) /\ key # <<>>
        THEN IF number # None
             THEN Raise("ValueError: mark anchor cannot be numbered")
             ELSE IF SubSeq(key, Len(MARK_PREFIX) + 1, Len(key)) = <<>>
             THEN Raise("ValueError: mark anchor key is nil")
             ELSE Parsed(TRUE, SubSeq(key, Len(MARK_PREFIX) + 1, Len(key)),
                         number, isContextual)
        ELSE Parsed(FALSE, key, number, isContextual)

\* (mutant) a component number below 1 is accepted
NamedAnchorInit_NoIndexCheck(name, lib) ==
    LET p == parseAnchorName(name, lib)
    IN  IF p.error # "none" \/ p.number # None THEN p
        ELSE IF p.key = <<>> THEN Raise("AssertionError") ELSE p

\* NamedAnchor.__init__: the parsed fields, or the exception raised.
NamedAnchorInit(name, lib) ==
    LET p == parseAnchorName(name, lib)
    IN  IF p.error # "none" THEN p
        ELSE IF p.number # None
        THEN IF p.number < 1
             THEN Raise("ValueError: ligature component indexes must start from 1")
             ELSE p
        ELSE IF p.key = <<>> THEN Raise("AssertionError") ELSE p

\* NamedAnchor.markAnchorName
markAnchorName(key) == MARK_PREFIX \o key

(***************************************************************************)
(* colorGraph                                                              *)
(***************************************************************************)
Range(q) == { q[i] : i \in 1..Len(q) }

\* sorted(...) of a collection of distinct strings
RECURSIVE sorted(_)
sorted(S) ==
    IF S = {} THEN <<>>
    ELSE LET m == CHOOSE x \in S : \A y \in S \ {x} : StrLess(x, y)
         IN  << m >> \o sorted(S \ {m})

\* The permutations of a finite set, as sequences
Perms(S) ==
    { q \in [1..Cardinality(S) -> S] : \A i, j \in 1..Cardinality(S) : q[i] = q[j] => i = j }
\* The members of S in the order of the sequence q
Restrict(q, S) == SelectSeq(q, LAMBDA x : x \in S)

\* (mutant) the number of colours in use is taken for a free colour
firstAvailable_Count(colorSet) == Cardinality(colorSet)

\* Smallest non-negative integer not in the given set of colours.
firstAvailable(colorSet) ==
    CHOOSE count \in 0..Cardinality(colorSet) :
        /\ count \notin colorSet
        /\ \A c \in 0..(count - 1) : c \in colorSet

\* A dict is a sequence of <<key, value>> pairs in insertion order.
DictKeys(d) == { d[i][1] : i \in 1..Len(d) }
DictGet(d, k) == (CHOOSE i \in 1..Len(d) : d[i][1] = k)
DictVal(d, k) == d[DictGet(d, k)][2]

\* The loop "for node in <order>" of colorGraph: colors is the dict built so
\* far, adj the adjacency map (key -> sequence of neighbours).
RECURSIVE ColorNodes(_, _, _)
ColorNodes(order, adj, colors) ==
    IF order = <<>> THEN colors
    ELSE LET node == order[1]
             nb == DictVal(adj, node)
             usedNeighbourColors ==
                 { DictVal(colors, nb[i]) :
                     i \in { j \in 1..Len(nb) : nb[j] \in DictKeys(colors) } }
         IN  ColorNodes(Tail(order), adj,
                        Append(colors, << node, firstAvailable(usedNeighbourColors) >>))

\* groups = defaultdict(list); for node, color in colors.items(): ...
\* groups is a dict color -> list of nodes, in the order the colours were
\* first met.
RECURSIVE GroupNodes(_, _)
GroupNodes(colors, groups) ==
    IF colors = <<>> THEN groups
    ELSE LET node == colors[1][1]
             color == colors[1][2]
         IN  GroupNodes(Tail(colors),
                 IF color \in DictKeys(groups)
                 THEN [ groups EXCEPT ![DictGet(groups, color)] =
                            << color, Append(@[2], node) >> ]
                 ELSE Append(groups, << color, << node >> >>))

DictValues(d) == [ i \in 1..Len(d) |-> d[i][2] ]

\* (mutant) the vertices are visited in the order the dict lists them
colorGraph_Unsorted(adj) ==
    DictValues(GroupNodes(ColorNodes([ i \in 1..Len(adj) |-> adj[i][1] ], adj, <<>>), <<>>))

\* adj: the adjacency dict, vertex -> sequence of neighbours.  The result is
\* the list of groups.
colorGraph(adj) ==
    DictValues(GroupNodes(ColorNodes(sorted(DictKeys(adj)), adj, <<>>), <<>>))

(***************************************************************************)
(* The anchor collector: setContext, shouldContinue, _pruneUnusedAnchors   *)
(*                                                                         *)
(* A font is the ordered glyph set: a sequence of glyphs                   *)
(*   [ name |-> glyph name, anchors |-> sequence of raw anchors ],         *)
(* a raw anchor being [ name, x, y, lib ]: its name (empty when the anchor *)
(* is unnamed), its coordinates, and whether its lib data holds the GPOS   *)
(* context key.  An OrderedDict is a sequence of <<key, value>> pairs.     *)
(***************************************************************************)
\* d[k] = v of a dict: a key already present keeps its place
DictSet(d, k, v) ==
    IF k \in DictKeys(d)
    THEN [ d EXCEPT ![DictGet(d, k)] = << k, v >> ]
    ELSE Append(d, << k, v >>)

\* "markClass=None"
NoClass == << "None" >>

\* The NamedAnchor object with parsed fields p for raw anchor a at (x, y)
NamedAnchorOf(a, x, y, p) ==
    [ name |-> a.name, x |-> x, y |-> y, isMark |-> p.isMark, key |-> p.key,
      number |-> p.number, markClass |-> NoClass,
      isContextual |-> p.isContextual, isIgnorable |-> p.isIgnorable,
      libData |-> a.lib, context |-> a.context ]

\* NamedAnchor(name=anchorName, x=x, y=y, libData=anchor.lib) for raw anchor a
NamedAnchor(a, x, y) == NamedAnchorOf(a, x, y, NamedAnchorInit(a.name, a.lib))

\* self._getAnchor(glyphName, anchorName, anchor=anchor): the anchor's
\* coordinates (default quantization)
getAnchor(a) == << a.x, a.y >>

\* The result of a step that may raise: the exception ("none" when it
\* returned) and the value.
Returned(v) == [ error |-> "none", value |-> v ]
Raised(what) == [ error |-> what, value |-> <<>> ]

\* (mutant) an anchor whose name is rejected is dropped like an unnamed one
CollectAnchor_DropRejected(anchor, made, a, anchorDict) ==
    IF anchor.name = <<>> \/ made.error # "none" THEN Returned(anchorDict)
    ELSE IF a.isIgnorable THEN Returned(anchorDict)
    ELSE Returned(DictSet(anchorDict, anchor.name, a))

\* The body of the loop "for anchor in glyph.anchors" of _getAnchorLists, a
\* being the NamedAnchor constructed (made the outcome of its constructor)
CollectAnchor(anchor, made, a, anchorDict) ==
    IF anchor.name = <<>> THEN Returned(anchorDict)
    ELSE IF made.error # "none" THEN Raised(made.error)
    ELSE IF a.isIgnorable THEN Returned(anchorDict)
    ELSE Returned(DictSet(anchorDict, anchor.name, a))

\* The loop "for anchor in glyph.anchors"
RECURSIVE CollectAnchors(_, _)
CollectRest(anchors, r) ==
    IF r.error # "none" THEN r ELSE CollectAnchors(Tail(anchors), r.value)
CollectAnchors(anchors, anchorDict) ==
    IF anchors = <<>> THEN Returned(anchorDict)
    ELSE CollectRest(anchors,
             CollectAnchor(anchors[1],
                           NamedAnchorInit(anchors[1].name, anchors[1].lib),
                           NamedAnchor(anchors[1], getAnchor(anchors[1])[1],
                                       getAnchor(anchors[1])[2]),
                           anchorDict))

\* The body of the loop "for glyphName, glyph in
\* self.getOrderedGlyphSet().items()", got being the anchors collected
CollectGlyph(glyph, gdef, got, result) ==
    IF gdef.defined /\ glyph.name \notin (gdef.base \cup gdef.ligature \cup gdef.mark)
    THEN Returned(result)
    ELSE IF got.error # "none" THEN got
    ELSE IF got.value # <<>>
    THEN Returned(Append(result, << glyph.name, DictValues(got.value) >>))
    ELSE Returned(result)

\* The loop over the glyphs
RECURSIVE CollectGlyphs(_, _, _)
CollectRestGlyphs(glyphs, gdef, r) ==
    IF r.error # "none" THEN r ELSE CollectGlyphs(Tail(glyphs), gdef, r.value)
CollectGlyphs(glyphs, gdef, result) ==
    IF glyphs = <<>> THEN Returned(result)
    ELSE CollectRestGlyphs(glyphs, gdef,
             CollectGlyph(glyphs[1], gdef,
                          CollectAnchors(glyphs[1].anchors, <<>>), result))

\* _getAnchorLists: the dict glyph name -> list of NamedAnchor, or the
\* exception raised by a malformed anchor name
getAnchorLists(glyphs, gdef) == CollectGlyphs(glyphs, gdef, <<>>)

\* Every anchor of every list of the dict
AllAnchors(lists) ==
    UNION { Range(lists[i][2]) : i \in 1..Len(lists) }

\* _getAnchorPairs: the dict base anchor name -> mark anchor name, as the set
\* of its items
getAnchorPairs(lists) ==
    LET markAnchorNames == { a.name : a \in { b \in AllAnchors(lists) : b.isMark } }
    IN  { << a.name, markAnchorName(a.key) >> :
            a \in { b \in AllAnchors(lists) :
                      ~b.isMark /\ markAnchorName(b.key) \in markAnchorNames } }

\* (mutant) the anchors with an empty key are removed too
pruneUnusedAnchors_DropEmptyKey(lists, pairs) ==
    LET attachingAnchorNames == { q[1] : q \in pairs } \cup { q[2] : q \in pairs }
        kept(anchors) == SelectSeq(anchors, LAMBDA a : a.name \in attachingAnchorNames)
        pruned == [ i \in 1..Len(lists) |-> << lists[i][1], kept(lists[i][2]) >> ]
    IN  SelectSeq(pruned, LAMBDA e : e[2] # <<>>)

\* _pruneUnusedAnchors
pruneUnusedAnchors(lists, pairs) ==
    LET attachingAnchorNames == { q[1] : q \in pairs } \cup { q[2] : q \in pairs }
        kept(anchors) ==
            SelectSeq(anchors,
                      LAMBDA a : ~(a.name \notin attachingAnchorNames /\ a.key # <<>>))
        pruned == [ i \in 1..Len(lists) |-> << lists[i][1], kept(lists[i][2]) >> ]
    IN  SelectSeq(pruned, LAMBDA e : e[2] # <<>>)

(***************************************************************************)
(* The mark class builder                                                  *)
(*                                                                         *)
(* The registry feaFile.markClasses is a dict class name -> class, a class *)
(* being its dict MarkClass.glyphs: glyph name -> anchor <<x, y>> in font  *)
(* units.  A NamedAnchor refers to its mark class by the class name.       *)
(***************************************************************************)
\* otRoundIgnoringVariable of a coordinate given in half units:
\* floor(v + 0.5) in font units
otRound(h) == (h + 1) \div 2

\* The characters legal in a feature file class name: A-Za-z0-9._
FeaClassNameChars == Letters \cup Digits \cup { ".", "_" }

\* ast.makeFeaClassName(name): the name without its illegal characters
makeFeaClassName(name) == SelectSeq(name, LAMBDA c : c \in FeaClassNameChars)

\* ast.makeFeaClassName(name, existingClassNames): the first of name,
\* name_1, name_2, ... that is no key of existingClassNames
RECURSIVE UniqueSuffix(_, _, _)
UniqueSuffix(origName, existing, i) ==
    IF (origName \o << "_" >> \o str(i)) \in existing
    THEN UniqueSuffix(origName, existing, i + 1)
    ELSE origName \o << "_" >> \o str(i)
makeUniqueFeaClassName(name, existing) ==
    LET origName == makeFeaClassName(name)
    IN  IF origName \in existing THEN UniqueSuffix(origName, existing, 1) ELSE origName

markClassPrefix == << "M", "C" >>

\* _anchorsAreEqual on two anchors that carry coordinates only
anchorsAreEqual(a1, a2) == a1[1] = a2[1] /\ a1[2] = a2[2]

\* "return None" of _defineMarkClass
NoDef == [ markClass |-> <<>>, glyph |-> "None", anchor |-> <<>> ]

\* (mutant) on a coordinate conflict the definition goes into the class that
\* was asked for
defineMarkClass_NoSplit(glyphName, x, y, className, markClasses) ==
    LET anchor == << otRound(x), otRound(y) >>
        mcdef == [ markClass |-> className, glyph |-> glyphName, anchor |-> anchor ]
    IN  IF className \notin DictKeys(markClasses)
        THEN [ markClasses |-> DictSet(markClasses, className, << << glyphName, anchor >> >>),
               mcdef |-> mcdef ]
        ELSE LET glyphs == DictVal(markClasses, className)
             IN  IF glyphName \in DictKeys(glyphs)
                    /\ anchorsAreEqual(anchor, DictVal(glyphs, glyphName))
                 THEN [ markClasses |-> markClasses, mcdef |-> NoDef ]
                 ELSE [ markClasses |->
                            DictSet(markClasses, className,
                                    DictSet(glyphs, glyphName, anchor)),
                        mcdef |-> mcdef ]

\* _defineMarkClass: the registry after the call and the definition returned
\* (NoDef when the glyph is already defined with these coordinates).
defineMarkClass(glyphName, x, y, className, markClasses) ==
    LET anchor == << otRound(x), otRound(y) >>
        mcdef(cn) == [ markClass |-> cn, glyph |-> glyphName, anchor |-> anchor ]
    IN  IF className \notin DictKeys(markClasses)
        THEN [ markClasses |-> DictSet(markClasses, className, << << glyphName, anchor >> >>),
               mcdef |-> mcdef(className) ]
        ELSE LET glyphs == DictVal(markClasses, className)
             IN  IF glyphName \in DictKeys(glyphs)
                 THEN IF anchorsAreEqual(anchor, DictVal(glyphs, glyphName))
                      THEN [ markClasses |-> markClasses, mcdef |-> NoDef ]
                      ELSE LET newClassName ==
                                   makeUniqueFeaClassName(className, DictKeys(markClasses))
                           IN  [ markClasses |->
                                     DictSet(markClasses, newClassName,
                                             << << glyphName, anchor >> >>),
                                 mcdef |-> mcdef(newClassName) ]
                 ELSE [ markClasses |->
                            DictSet(markClasses, className,
                                    Append(glyphs, << glyphName, anchor >>)),
                        mcdef |-> mcdef(className) ]

\* _groupMarkGlyphsByAnchor: groups is the dict mark anchor name -> (dict
\* glyph name -> anchor); markGlyphNames the set of the mark glyphs.
RECURSIVE GroupMarkAnchors(_, _, _)
GroupMarkAnchors(glyphName, markAnchors, groups) ==
    IF markAnchors = <<>> THEN groups
    ELSE LET anchor == markAnchors[1]
             group == IF anchor.name \in DictKeys(groups)
                      THEN DictVal(groups, anchor.name) ELSE <<>>
         IN  GroupMarkAnchors(glyphName, Tail(markAnchors),
                 DictSet(groups, anchor.name, DictSet(group, glyphName, anchor)))

RECURSIVE GroupMarkGlyphs(_, _, _, _)
GroupMarkGlyphs(lists, pairs, gdef, acc) ==
    IF lists = <<>> THEN acc
    ELSE LET glyphName == lists[1][1]
             markAnchorNames == { q[2] : q \in pairs }
             markAnchors == SelectSeq(lists[1][2], LAMBDA a : a.name \in markAnchorNames)
         IN  IF (gdef.defined /\ glyphName \notin gdef.mark)
                \/ markAnchors = <<>>
             THEN GroupMarkGlyphs(Tail(lists), pairs, gdef, acc)
             ELSE GroupMarkGlyphs(Tail(lists), pairs, gdef,
                      [ groups |-> GroupMarkAnchors(glyphName, markAnchors, acc.groups),
                        markGlyphNames |-> acc.markGlyphNames \cup { glyphName } ])

groupMarkGlyphsByAnchor(lists, pairs, gdef) ==
    GroupMarkGlyphs(lists, pairs, gdef, [ groups |-> <<>>, markGlyphNames |-> {} ])

\* sorted(d.items()) of a dict with string keys
sortedItems(d) ==
    LET keys == sorted(DictKeys(d))
    IN  [ i \in 1..Len(keys) |-> << keys[i], DictVal(d, keys[i]) >> ]

\* The inner loop of _makeMarkClassDefinitions, over the glyphs of one mark
\* anchor name.  st holds currentClasses, allMarkClasses (dict key -> class
\* name) and newDefs.
RECURSIVE DefineGlyphs(_, _, _)
DefineGlyphs(glyphAnchorPairs, className, st) ==
    IF glyphAnchorPairs = <<>> THEN st
    ELSE LET glyphName == glyphAnchorPairs[1][1]
             anchor == glyphAnchorPairs[1][2]
             r == defineMarkClass(glyphName, anchor.x, anchor.y, className,
                                  st.currentClasses)
             nextName == IF r.mcdef # NoDef THEN r.mcdef.markClass ELSE className
         IN  DefineGlyphs(Tail(glyphAnchorPairs), nextName,
                 [ currentClasses |-> r.markClasses,
                   allMarkClasses |-> DictSet(st.allMarkClasses, anchor.key, nextName),
                   newDefs |-> IF r.mcdef # NoDef
                               THEN Append(st.newDefs, r.mcdef) ELSE st.newDefs ])

\* The outer loop, over the sorted mark anchor names
RECURSIVE DefineGroups(_, _)
DefineGroups(items, st) ==
    IF items = <<>> THEN st
    ELSE DefineGroups(Tail(items),
             DefineGlyphs(items[1][2],
                          makeFeaClassName(markClassPrefix \o items[1][1]), st))

\* _makeMarkClassDefinitions: the registry, context.markClasses and newDefs
makeMarkClassDefinitions(glyphSets, currentClasses) ==
    DefineGroups(sortedItems(glyphSets),
                 [ currentClasses |-> currentClasses, allMarkClasses |-> <<>>,
                   newDefs |-> <<>> ])

\* _setBaseAnchorMarkClasses
setBaseAnchorMarkClasses(lists, markClasses) ==
    [ i \in 1..Len(lists) |->
        << lists[i][1],
           [ j \in 1..Len(lists[i][2]) |->
               LET anchor == lists[i][2][j]
               IN  IF anchor.isMark \/ anchor.key = <<>>
                      \/ anchor.key \notin DictKeys(markClasses)
                   THEN anchor
                   ELSE [ anchor EXCEPT !.markClass = DictVal(markClasses, anchor.key) ] ] >> ]

(***************************************************************************)
(* The attachment rule builder: mark-to-base and mark-to-ligature          *)
(* attachments and their grouping into lookups                             *)
(*                                                                         *)
(* A MarkToBasePos is [ name, marks ] with marks a sequence of anchors, a  *)
(* MarkToLigaPos is [ name, marks ] with marks a sequence of components,   *)
(* each a sequence of anchors (empty: <anchor NULL>).                      *)
(***************************************************************************)
\* (mutant) the contextual anchors are not skipped
makeMarkToBaseAttachments_WithContextual(lists, markGlyphNames, gdef) ==
    LET baseMarks(anchors) ==
            SelectSeq(anchors, LAMBDA a : ~(a.markClass = NoClass \/ a.number # None))
        eligible ==
            SelectSeq(lists,
                LAMBDA e : ~(e[1] \in markGlyphNames
                             \/ (gdef.defined /\ e[1] \notin gdef.base))
                           /\ baseMarks(e[2]) # <<>>)
    IN  [ i \in 1..Len(eligible) |->
            [ name |-> eligible[i][1], marks |-> baseMarks(eligible[i][2]) ] ]

\* _makeMarkToBaseAttachments
makeMarkToBaseAttachments(lists, markGlyphNames, gdef) ==
    LET baseMarks(anchors) ==
            SelectSeq(anchors,
                LAMBDA a : ~(a.markClass = NoClass \/ a.number # None)
                           /\ ~a.isContextual)
        eligible ==
            SelectSeq(lists,
                LAMBDA e : ~(e[1] \in markGlyphNames
                             \/ (gdef.defined /\ e[1] \notin gdef.base))
                           /\ baseMarks(e[2]) # <<>>)
    IN  [ i \in 1..Len(eligible) |->
            [ name |-> eligible[i][1], marks |-> baseMarks(eligible[i][2]) ] ]

\* The loop "for anchor in anchors" of _makeMarkToLigaAttachments:
\* componentAnchors is the dict number -> list of anchors
RECURSIVE ComponentAnchors(_, _)
ComponentAnchors(anchors, componentAnchors) ==
    IF anchors = <<>> THEN componentAnchors
    ELSE LET anchor == anchors[1]
         IN  IF (anchor.markClass = NoClass /\ anchor.key # <<>>)
                \/ anchor.number = None
                \/ anchor.isContextual
             THEN ComponentAnchors(Tail(anchors), componentAnchors)
             ELSE IF anchor.key = <<>>
             THEN ComponentAnchors(Tail(anchors),
                      DictSet(componentAnchors, anchor.number, <<>>))
             ELSE ComponentAnchors(Tail(anchors),
                      DictSet(componentAnchors, anchor.number,
                              Append(IF anchor.number \in DictKeys(componentAnchors)
                                     THEN DictVal(componentAnchors, anchor.number)
                                     ELSE <<>>,
                                     anchor)))

Max(S) == CHOOSE m \in S : \A n \in S : n <= m

\* _makeMarkToLigaAttachments
makeMarkToLigaAttachments(lists, markGlyphNames, gdef) ==
    LET comps(anchors) == ComponentAnchors(anchors, <<>>)
        eligible ==
            SelectSeq(lists,
                LAMBDA e : ~(e[1] \in markGlyphNames
                             \/ (gdef.defined /\ e[1] \notin gdef.ligature))
                           /\ comps(e[2]) # <<>>)
        ligatureMarks(anchors) ==
            [ number \in 1..Max(DictKeys(comps(anchors))) |->
                IF number \in DictKeys(comps(anchors))
                THEN DictVal(comps(anchors), number) ELSE <<>> ]
    IN  [ i \in 1..Len(eligible) |->
            [ name |-> eligible[i][1], marks |-> ligatureMarks(eligible[i][2]) ] ]

\* The loop "for anchor in anchors" of _makeMarkToMarkAttachments: results is
\* the dict anchor key -> list of MarkToMarkPos
RECURSIVE MarkToMarkAnchors(_, _, _)
MarkToMarkAnchors(glyphName, anchors, results) ==
    IF anchors = <<>> THEN results
    ELSE LET anchor == anchors[1]
         IN  IF anchor.markClass = NoClass \/ anchor.isMark \/ anchor.isContextual
                \/ anchor.number # None
             THEN MarkToMarkAnchors(glyphName, Tail(anchors), results)
             ELSE MarkToMarkAnchors(glyphName, Tail(anchors),
                      DictSet(results, anchor.key,
                              Append(IF anchor.key \in DictKeys(results)
                                     THEN DictVal(results, anchor.key) ELSE <<>>,
                                     [ name |-> glyphName, marks |-> << anchor >> ])))

\* _makeMarkToMarkAttachments
RECURSIVE MarkToMarkGlyphs(_, _, _)
MarkToMarkGlyphs(lists, markGlyphNames, results) ==
    IF lists = <<>> THEN results
    ELSE MarkToMarkGlyphs(Tail(lists), markGlyphNames,
             IF lists[1][1] \notin markGlyphNames THEN results
             ELSE MarkToMarkAnchors(lists[1][1], lists[1][2], results))
makeMarkToMarkAttachments(lists, markGlyphNames) ==
    MarkToMarkGlyphs(lists, markGlyphNames, <<>>)

\* AbstractMarkPos.filter / MarkToLigaPos._filterMarks with the include of
\* _groupAttachments: an anchor is kept when its mark class is one of
\* markClasses.  kind is "base" or "liga"; NoPos stands for the None returned
\* when nothing is left.
NoPos == [ name |-> "None", marks |-> <<>> ]
FilterPos(kind, pos, markClasses) ==
    IF kind = "liga"
    THEN LET marks == [ c \in 1..Len(pos.marks) |->
                          SelectSeq(pos.marks[c], LAMBDA a : a.markClass \in markClasses) ]
         IN  IF \E c \in 1..Len(marks) : marks[c] # <<>>
             THEN [ name |-> pos.name, marks |-> marks ] ELSE NoPos
    ELSE LET marks == SelectSeq(pos.marks, LAMBDA a : a.markClass \in markClasses)
         IN  IF marks # <<>> THEN [ name |-> pos.name, marks |-> marks ] ELSE NoPos

\* The anchors of an attachment
PosAnchors(kind, pos) ==
    IF kind = "liga" THEN UNION { Range(pos.marks[c]) : c \in 1..Len(pos.marks) }
    ELSE Range(pos.marks)

\* getMarkGlyphToMarkClasses, accumulated over the attachments as in
\* _groupAttachments: the set of the classes each mark glyph is found in
markGlyphToMarkClasses(kind, attachments, registry) ==
    LET anchors == UNION { PosAnchors(kind, attachments[i]) : i \in 1..Len(attachments) }
        classes == { a.markClass : a \in anchors }
        glyphsOf(cn) == DictKeys(DictVal(registry, cn))
        markGlyphs == UNION { glyphsOf(cn) : cn \in classes }
    IN  [ g \in markGlyphs |-> { cn \in classes : g \in glyphsOf(cn) } ]

\* anchorSortKey.get(name, 0)
anchorSortKey(name) ==
    IF name = << "_", "b", "o", "t", "t", "o", "m" >> THEN -2
    ELSE IF name = << "_", "t", "o", "p" >> THEN -1
    ELSE 0

\* _removeClassPrefix
removeClassPrefix(markClass) ==
    SubSeq(markClass, Len(markClassPrefix) + 1, Len(markClass))

\* Python's < on two lists of strings
RECURSIVE ListLess(_, _)
ListLess(s, t) ==
    IF t = <<>> THEN FALSE
    ELSE IF s = <<>> THEN TRUE
    ELSE IF s[1] # t[1] THEN StrLess(s[1], t[1])
    ELSE ListLess(Tail(s), Tail(t))

Min(S) == CHOOSE m \in S : \A n \in S : m <= n

\* The sort key of a colour group in _groupMarkClasses, and its order
GroupPriority(group) ==
    0 - Min({ anchorSortKey(removeClassPrefix(group[i])) : i \in 1..Len(group) })
GroupLess(g, h) ==
    \/ GroupPriority(g) < GroupPriority(h)
    \/ GroupPriority(g) = GroupPriority(h) /\ ListLess(g, h)

\* sorted(groups, key=...) of distinct groups
RECURSIVE sortedGroups(_)
sortedGroups(S) ==
    IF S = {} THEN <<>>
    ELSE LET m == CHOOSE x \in S : \A y \in S \ {x} : GroupLess(x, y)
         IN  << m >> \o sortedGroups(S \ {m})

\* The adjacency dict that _groupMarkClasses builds: its keys in the order
\* keyOrder, each neighbour set in the order iterOrder (both are iteration
\* orders of sets, which Python leaves open).
AdjacencyOfClasses(glyphToClasses, keyOrder, iterOrder) ==
    [ i \in 1..Len(keyOrder) |->
        << keyOrder[i],
           Restrict(iterOrder,
               { other \in Range(keyOrder) \ { keyOrder[i] } :
                   \E g \in DOMAIN glyphToClasses :
                       { keyOrder[i], other } \subseteq glyphToClasses[g] }) >> ]

\* (mutant) no edge is added between the classes of a mark glyph
groupMarkClasses_NoEdges(glyphToClasses, keyOrder, iterOrder) ==
    LET adj == [ i \in 1..Len(keyOrder) |-> << keyOrder[i], <<>> >> ]
        colorGroups_ == colorGraph(adj)
    IN  sortedGroups({ sorted(Range(colorGroups_[i])) : i \in 1..Len(colorGroups_) })

\* _groupMarkClasses
groupMarkClasses(glyphToClasses, keyOrder, iterOrder) ==
    LET adj == AdjacencyOfClasses(glyphToClasses, keyOrder, iterOrder)
        colorGroups_ == colorGraph(adj)
    IN  sortedGroups({ sorted(Range(colorGroups_[i])) : i \in 1..Len(colorGroups_) })

\* (mutant) one group per class name, in the order of the class names
oneGroupPerMarkClass_ByClassName(markClasses) ==
    LET names == sorted({ DictVal(markClasses, k) : k \in DictKeys(markClasses) })
    IN  [ i \in 1..Len(names) |-> << names[i] >> ]

\* The else branch of _groupAttachments: one group per entry of
\* context.markClasses, in the order of sorted(markClasses.items())
oneGroupPerMarkClass(markClasses) ==
    LET items == sortedItems(markClasses)
    IN  [ i \in 1..Len(items) |-> << items[i][2] >> ]

\* The loop "for markClasses in groupedMarkClasses" of _groupAttachments
filterIntoLookups(kind, attachments, groupedMarkClasses) ==
    [ g \in 1..Len(groupedMarkClasses) |->
        LET filtered == [ i \in 1..Len(attachments) |->
                            FilterPos(kind, attachments[i],
                                      Range(groupedMarkClasses[g])) ]
        IN  SelectSeq(filtered, LAMBDA f : f # NoPos) ]

\* _groupAttachments.  group is options.groupMarkClasses.
groupAttachments(kind, attachments, group, markClasses, registry, keyOrder, iterOrder) ==
    filterIntoLookups(kind, attachments,
        IF group
        THEN groupMarkClasses(markGlyphToMarkClasses(kind, attachments, registry),
                              keyOrder, iterOrder)
        ELSE oneGroupPerMarkClass(markClasses))

\* The mark classes that the attachments refer to
ReferencedClasses(kind, attachments) ==
    { a.markClass :
        a \in UNION { PosAnchors(kind, attachments[i]) : i \in 1..Len(attachments) } }

(***************************************************************************)
(* The script bucketer: above and below anchors                            *)
(***************************************************************************)
N_top == << "t", "o", "p" >>
N_bottom == << "b", "o", "t", "t", "o", "m" >>
N_bottomleft == N_bottom \o << "l", "e", "f", "t" >>
N_bottomright == N_bottom \o << "r", "i", "g", "h", "t" >>
N_topleft == N_top \o << "l", "e", "f", "t" >>
N_topright == N_top \o << "r", "i", "g", "h", "t" >>
N_candra == << "c", "a", "n", "d", "r", "a" >>
N_bindu == << "b", "i", "n", "d", "u" >>
N_imatra == << "i", "m", "a", "t", "r", "a" >>
N_nukta == << "n", "u", "k", "t", "a" >>

abvmAnchorNames ==
    { N_top, N_topleft, N_topright, N_candra, N_bindu, N_candra \o N_bindu, N_imatra }
blwmAnchorNames == { N_bottom, N_bottomleft, N_bottomright, N_nukta }

\* (mutant) only the names of blwmAnchorNames are below
isAboveMark_ListedOnly(anchor) ==
    IF anchor.name \in abvmAnchorNames THEN TRUE
    ELSE IF anchor.name \in blwmAnchorNames THEN FALSE
    ELSE TRUE

\* _isAboveMark
isAboveMark(anchor) ==
    IF anchor.name \in abvmAnchorNames THEN TRUE
    ELSE IF anchor.name \in blwmAnchorNames
            \/ startswith(anchor.name, N_bottom)
            \/ startswith(anchor.name, N_nukta)
    THEN FALSE
    ELSE TRUE

\* _isBelowMark
isBelowMark(anchor) == ~isAboveMark(anchor)

\* A glyph without code point
NoUnicode == "None"

\* unicodeScriptExtensions(uv) for the code points of the model
unicodeScriptExtensions(uv) ==
    CASE uv = "U+0041" -> { "Latn" }
      [] uv = "U+0915" -> { "Deva" }
      [] uv = "U+0951" -> { "Deva", "Latn" }
      [] uv = "U+1780" -> { "Khmr" }
      [] OTHER -> {}

\* unicodeInScripts(uv, scripts)
unicodeInScripts(uv, scripts) == unicodeScriptExtensions(uv) \cap scripts # {}

\* scriptsUsingAbvm: of INDIC_SCRIPTS + USE_SCRIPTS + ["Khmr"] the model
\* keeps two scripts
scriptsUsingAbvm == { "Deva", "Khmr" }

\* makeUnicodeToGlyphNameMapping: the items (code point, glyph name)
makeUnicodeToGlyphNameMapping(glyphs) ==
    { << glyphs[i].unicode, glyphs[i].name >> :
        i \in { j \in 1..Len(glyphs) : glyphs[j].unicode # NoUnicode } }

\* The glyphs reached from the glyphs S through the substitutions
RECURSIVE closeGlyphsOverGSUB(_, _)
closeGlyphsOverGSUB(S, substitutions) ==
    LET more == S \cup { q[2] : q \in { r \in substitutions : r[1] \in S } }
    IN  IF more = S THEN S ELSE closeGlyphsOverGSUB(more, substitutions)

\* classifyGlyphs(unicodeFunc, cmap, gsub, extras).get(True, set()), given
\* the code points uvs for which unicodeFunc is true
classifyGlyphs(uvs, cmap, substitutions) ==
    closeGlyphsOverGSUB({ q[2] : q \in { r \in cmap : r[1] \in uvs } }, substitutions)

\* (mutant) notAbvmGlyphs is not completed with the rest of the glyph set
getAbvmGlyphs_NoUnion(glyphs, fea) ==
    LET glyphSet == { glyphs[i].name : i \in 1..Len(glyphs) }
        cmap == makeUnicodeToGlyphNameMapping(glyphs)
        abvmScripts == IF fea.scripts # {} THEN scriptsUsingAbvm \cap fea.scripts
                       ELSE scriptsUsingAbvm
        isAbvm == { q[1] : q \in { r \in cmap : unicodeInScripts(r[1], abvmScripts) } }
        isNotAbvm == { q[1] : q \in { r \in cmap :
                           unicodeScriptExtensions(r[1]) \ scriptsUsingAbvm # {} } }
    IN  IF abvmScripts # {} /\ isAbvm # {}
        THEN [ abvmGlyphs |-> classifyGlyphs(isAbvm, cmap, fea.substitutions),
               notAbvmGlyphs |-> classifyGlyphs(isNotAbvm, cmap, fea.substitutions) ]
        ELSE [ abvmGlyphs |-> {}, notAbvmGlyphs |-> glyphSet ]

\* _getAbvmGlyphs: glyphs is the ordered glyph set, fea the feature file
getAbvmGlyphs(glyphs, fea) ==
    LET glyphSet == { glyphs[i].name : i \in 1..Len(glyphs) }
        cmap == makeUnicodeToGlyphNameMapping(glyphs)
        abvmScripts == IF fea.scripts # {} THEN scriptsUsingAbvm \cap fea.scripts
                       ELSE scriptsUsingAbvm
        isAbvm == { q[1] : q \in { r \in cmap : unicodeInScripts(r[1], abvmScripts) } }
        isNotAbvm == { q[1] : q \in { r \in cmap :
                           unicodeScriptExtensions(r[1]) \ scriptsUsingAbvm # {} } }
    IN  IF abvmScripts # {} /\ isAbvm # {}
        THEN [ abvmGlyphs |-> classifyGlyphs(isAbvm, cmap, fea.substitutions),
               notAbvmGlyphs |->
                   classifyGlyphs(isNotAbvm, cmap, fea.substitutions)
                   \cup (glyphSet \ classifyGlyphs(isAbvm, cmap, fea.substitutions)) ]
        ELSE [ abvmGlyphs |-> {}, notAbvmGlyphs |-> glyphSet ]

(***************************************************************************)
(* The feature assembler and the run of the writer                         *)
(***************************************************************************)
\* A lookup block [ name, statements ]; "return None" of the lookup makers
NoLookup == [ name |-> <<>>, statements |-> <<>> ]

\* marksFilter(anchor), marksFilter being None, _isAboveMark or _isBelowMark
KeepMark(marksFilter, anchor) ==
    IF marksFilter = "above" THEN isAboveMark(anchor)
    ELSE IF marksFilter = "below" THEN isBelowMark(anchor)
    ELSE TRUE

\* pos.filter(marksFilter), NoPos standing for None
FilterMarks(kind, pos, marksFilter) ==
    IF kind = "liga"
    THEN LET marks == [ c \in 1..Len(pos.marks) |->
                          SelectSeq(pos.marks[c], LAMBDA a : KeepMark(marksFilter, a)) ]
         IN  IF \E c \in 1..Len(marks) : marks[c] # <<>>
             THEN [ name |-> pos.name, marks |-> marks ] ELSE NoPos
    ELSE LET marks == SelectSeq(pos.marks, LAMBDA a : KeepMark(marksFilter, a))
         IN  IF marks # <<>> THEN [ name |-> pos.name, marks |-> marks ] ELSE NoPos

\* _iterAttachments: the attachments of the included glyphs, filtered;
\* include is the set of the glyphs for which include(glyphName) holds
iterAttachments(kind, attachments, include, marksFilter) ==
    LET included == SelectSeq(attachments, LAMBDA pos : pos.name \in include)
        filtered == [ i \in 1..Len(included) |->
                        IF marksFilter = "None" THEN included[i]
                        ELSE FilterMarks(kind, included[i], marksFilter) ]
    IN  SelectSeq(filtered, LAMBDA pos : pos # NoPos)

\* (mutant) a lookup is made of all the attachments, whatever the glyph
makeMarkLookup_AllGlyphs(lookupName, kind, attachments, include, marksFilter) ==
    IF attachments # <<>>
    THEN [ name |-> lookupName, statements |-> attachments ] ELSE NoLookup

\* _makeMarkLookup
makeMarkLookup(lookupName, kind, attachments, include, marksFilter) ==
    IF iterAttachments(kind, attachments, include, marksFilter) # <<>>
    THEN [ name |-> lookupName,
           statements |-> iterAttachments(kind, attachments, include, marksFilter) ]
    ELSE NoLookup

\* The loops "for attachments in self.context.groupedMarkTo...Attachments"
\* of _makeMarkFeature and _makeAbvmOrBlwmFeature: prefix is the lookup name
\* without its number, lkps the lookups built so far.
RECURSIVE makeMarkLookups(_, _, _, _, _, _)
makeMarkLookups(prefix, kind, grouped, include, marksFilter, lkps) ==
    IF grouped = <<>> THEN lkps
    ELSE LET i == Len(lkps)
             lookupName == IF i > 0 THEN prefix \o << "_" >> \o str(i) ELSE prefix
             lookup == makeMarkLookup(lookupName, kind, grouped[1], include, marksFilter)
         IN  makeMarkLookups(prefix, kind, Tail(grouped), include, marksFilter,
                             IF lookup # NoLookup THEN Append(lkps, lookup) ELSE lkps)

mark2base == << "m", "a", "r", "k", "2", "b", "a", "s", "e" >>
mark2liga == << "m", "a", "r", "k", "2", "l", "i", "g", "a" >>
mark2mark_ == << "m", "a", "r", "k", "2", "m", "a", "r", "k", "_" >>

\* (mutant) the filtering set takes every glyph of the mark class
makeMarkToMarkLookup_WholeClass(key, attachments, include, marksFilter, prefix, markClasses, registry) ==
    LET statements == iterAttachments("mark", attachments, include, marksFilter)
        glyphs == DictVal(registry, DictVal(markClasses, key))
        markGlyphs == [ i \in 1..Len(glyphs) |-> glyphs[i][1] ]
        baseGlyphs == SelectSeq([ i \in 1..Len(statements) |-> statements[i].name ],
                                LAMBDA g : g \notin DictKeys(glyphs))
    IN  IF statements # <<>>
        THEN [ name |-> prefix \o mark2mark_ \o key,
               markFilteringSet |-> markGlyphs \o baseGlyphs,
               statements |-> statements ]
        ELSE NoLookup

\* _makeMarkToMarkLookup with _makeMarkFilteringSetClass: the lookup with its
\* mark filtering set (the included glyphs of the mark class, then the glyphs
\* of the attachments that are not in the class).  prefix is featureTag + "_"
\* or empty.
makeMarkToMarkLookup(key, attachments, include, marksFilter, prefix, markClasses, registry) ==
    LET statements == iterAttachments("mark", attachments, include, marksFilter)
        glyphs == DictVal(registry, DictVal(markClasses, key))
        markGlyphs == SelectSeq([ i \in 1..Len(glyphs) |-> glyphs[i][1] ],
                                LAMBDA g : g \in include)
        baseGlyphs == SelectSeq([ i \in 1..Len(statements) |-> statements[i].name ],
                                LAMBDA g : g \notin DictKeys(glyphs))
    IN  IF statements # <<>>
        THEN [ name |-> prefix \o mark2mark_ \o key,
               markFilteringSet |-> markGlyphs \o baseGlyphs,
               statements |-> statements ]
        ELSE NoLookup

\* The loop over sorted(self.context.markToMarkAttachments.items())
makeMarkToMarkLookups(markToMark, include, marksFilter, prefix, markClasses, registry) ==
    LET items == sortedItems(markToMark)
        lkps == [ i \in 1..Len(items) |->
                    makeMarkToMarkLookup(items[i][1], items[i][2], include, marksFilter,
                                         prefix, markClasses, registry) ]
    IN  SelectSeq(lkps, LAMBDA l : l # NoLookup)

(***************************************************************************)
(* Contextual attachments.  The context data of an anchor                  *)
(* (libData[ANCHOR_LIB_GPOS_CONTEXT_KEY].strip()) is the sequence of its   *)
(* lines; a context is a string; the dicts context -> list of (glyph name, *)
(* anchor) keep the order of insertion.                                    *)
(***************************************************************************)
\* s.strip() of a string whose white space is made of spaces
RECURSIVE lstrip(_)
lstrip(s) == IF s # <<>> /\ s[1] = " " THEN lstrip(Tail(s)) ELSE s
strip(s) == lstrip(rstrip(s, << " " >>))

\* The contexts of the lines of anchor_context: context.strip().rstrip(";")
\* of every line, the empty ones left out
ContextsOf(lines) ==
    SelectSeq([ i \in 1..Len(lines) |-> rstrip(strip(lines[i]), << ";" >>) ],
              LAMBDA c : c # <<>>)

\* dest[context].append((glyphName, anchor)) for every context
RECURSIVE AddContexts(_, _, _)
AddContexts(contexts, pair, dest) ==
    IF contexts = <<>> THEN dest
    ELSE AddContexts(Tail(contexts), pair,
             DictSet(dest, contexts[1],
                     Append(IF contexts[1] \in DictKeys(dest)
                            THEN DictVal(dest, contexts[1]) ELSE <<>>,
                            pair)))

\* The result dict an anchor of _makeContextualAttachments goes to: "mark",
\* "liga", "base", or "none" when the anchor is skipped
ContextualDest(glyphName, anchor, markGlyphNames, gdef) ==
    IF ~anchor.isContextual THEN "none"
    ELSE IF glyphName \in markGlyphNames
    THEN IF anchor.markClass = NoClass \/ anchor.isMark \/ anchor.number # None
         THEN "none" ELSE "mark"
    ELSE IF anchor.number # None /\ (gdef.defined => glyphName \in gdef.ligature)
    THEN "liga"
    ELSE IF anchor.number = None
            /\ ((gdef.defined => glyphName \in gdef.base)
                \/ (gdef.defined /\ glyphName \in gdef.ligature))
    THEN "base"
    ELSE "none"

\* The loop "for anchor in anchors" of _makeContextualAttachments; dest is
\* the result dict of the first anchor
RECURSIVE ContextualAnchors(_, _, _, _, _)
ContextualAnchor(glyphName, anchors, markGlyphNames, gdef, acc, dest) ==
    ContextualAnchors(glyphName, Tail(anchors), markGlyphNames, gdef,
        IF dest = "none" THEN acc
        ELSE [ acc EXCEPT ![dest] = AddContexts(ContextsOf(anchors[1].context),
                                                << glyphName, anchors[1] >>, acc[dest]) ])
ContextualAnchors(glyphName, anchors, markGlyphNames, gdef, acc) ==
    IF anchors = <<>> THEN acc
    ELSE ContextualAnchor(glyphName, anchors, markGlyphNames, gdef, acc,
             ContextualDest(glyphName, anchors[1], markGlyphNames, gdef))

\* The glyph names of the model in Python's order of strings
GlyphNameOrder ==
    << "a", "acutecomb", "f_f", "gravecomb", "ka", "ka.alt" >>
\* sorted(self.context.anchorLists.items())
sortedLists(lists) ==
    LET at(name) == CHOOSE i \in 1..Len(lists) : lists[i][1] = name
        names == SelectSeq(GlyphNameOrder,
                           LAMBDA n : \E i \in 1..Len(lists) : lists[i][1] = n)
    IN  [ i \in 1..Len(names) |-> lists[at(names[i])] ]

\* The loop over the glyphs
RECURSIVE ContextualGlyphs(_, _, _, _)
ContextualGlyphs(lists, markGlyphNames, gdef, acc) ==
    IF lists = <<>> THEN acc
    ELSE ContextualGlyphs(Tail(lists), markGlyphNames, gdef,
             ContextualAnchors(lists[1][1], lists[1][2], markGlyphNames, gdef, acc))

\* _makeContextualAttachments: baseResult, ligatureResult, markResult
makeContextualAttachments(lists, markGlyphNames, gdef) ==
    ContextualGlyphs(sortedLists(lists), markGlyphNames, gdef,
                     [ base |-> <<>>, liga |-> <<>>, mark |-> <<>> ])

\* The number of occurrences of character c in s
RECURSIVE count(_, _)
count(s, c) ==
    IF s = <<>> THEN 0 ELSE (IF s[1] = c THEN 1 ELSE 0) + count(Tail(s), c)

\* fullcontext.split(";"): the part before the first ";" and the part after
SplitAt(s) == CHOOSE i \in 1..Len(s) : s[i] = ";" /\ \A j \in 1..(i - 1) : s[j] # ";"
BeforeOf(fullcontext) ==
    IF count(fullcontext, ";") > 0 THEN SubSeq(fullcontext, 1, SplitAt(fullcontext) - 1)
    ELSE <<>>
AfterOf(fullcontext) ==
    IF count(fullcontext, ";") > 0
    THEN strip(SubSeq(fullcontext, SplitAt(fullcontext) + 1, Len(fullcontext)))
    ELSE strip(fullcontext)

ContextualMark == << "C", "o", "n", "t", "e", "x", "t", "u", "a", "l", "M", "a", "r", "k" >>
ContextualMarkToMark == << "C", "o", "n", "t", "e", "x", "t", "u", "a", "l", "M", "a", "r", "k", "T", "o", "M", "a", "r", "k" >>
Dispatch_ == << "D", "i", "s", "p", "a", "t", "c", "h", "_" >>

\* The lookups made so far by _makeContextualMarkLookup: refLkps, the dict
\* ctxLkps (before -> dispatch lookup), and the exception raised if any
NoLookups == [ error |-> "none", refLkps |-> <<>>, ctxLkps |-> <<>> ]

\* The dispatch lookup of a context, created when its flags are new
DispatchLookup(before, ctxLkps, prefix) ==
    IF before \in DictKeys(ctxLkps) THEN DictVal(ctxLkps, before)
    ELSE [ name |-> prefix \o Dispatch_ \o str(Len(ctxLkps)),
           statements |-> IF before # <<>>
                          THEN << [ flags |-> before ] >> ELSE <<>> ]

\* The rule "pos <contextual>;" appended to the dispatch lookup: "*" in
\* after stands for the glyphs, "&" for the marks followed by the reference
\* to the lookup refLkpName; "* &" is put for "*" when after holds no "&"
\* (mutant) only "&" stands for the mark class
ContextualRule_AmpersandOnly(fullcontext, after, statements, markClass, refLkpName) ==
    [ context |-> fullcontext,
      after |-> after,
      glyphs |-> [ i \in 1..Len(statements) |-> statements[i].name ],
      marks |-> markClass,
      lookup |-> refLkpName,
      invocations |-> count(after, "&") ]

ContextualRule(fullcontext, after, statements, markClass, refLkpName) ==
    [ context |-> fullcontext,
      after |-> after,
      glyphs |-> [ i \in 1..Len(statements) |-> statements[i].name ],
      marks |-> markClass,
      lookup |-> refLkpName,
      invocations |-> IF count(after, "&") = 0 THEN count(after, "*")
                      ELSE count(after, "&") ]

\* The body of the loop "for anchorKey, statements in attachments.items()"
\* of _makeContextualMarkLookup
ContextualLookup(anchorKey, statements, fullcontext, st, prefix, markClasses) ==
    IF st.error # "none" THEN st
    ELSE IF count(fullcontext, ";") > 1
    THEN [ st EXCEPT !.error = "ValueError: too many values to unpack" ]
    ELSE IF anchorKey \notin DictKeys(markClasses)
    THEN [ st EXCEPT !.error = "KeyError" ]
    ELSE [ error |-> "none",
           refLkps |-> Append(st.refLkps,
                              [ name |-> prefix \o << "_" >> \o str(Len(st.refLkps)),
                                statements |-> statements ]),
           ctxLkps |->
               DictSet(st.ctxLkps, BeforeOf(fullcontext),
                   [ DispatchLookup(BeforeOf(fullcontext), st.ctxLkps, prefix) EXCEPT
                       !.statements =
                           Append(Append(@, [ comment |-> AfterOf(fullcontext) ]),
                                  ContextualRule(fullcontext, AfterOf(fullcontext),
                                      statements, DictVal(markClasses, anchorKey),
                                      prefix \o << "_" >> \o str(Len(st.refLkps)))) ]) ]

\* _makeContextualMarkLookup: attachments is the dict anchor key -> list of
\* attachments
RECURSIVE makeContextualMarkLookup(_, _, _, _, _)
makeContextualMarkLookup(attachments, fullcontext, st, prefix, markClasses) ==
    IF attachments = <<>> THEN st
    ELSE makeContextualMarkLookup(Tail(attachments), fullcontext,
             ContextualLookup(attachments[1][1], attachments[1][2], fullcontext, st,
                              prefix, markClasses),
             prefix, markClasses)

\* sorted(d.items(), key=lambda x: -len(x[0])): the longest contexts first,
\* contexts of one length in the order of the dict
RECURSIVE sortedByLength(_)
sortedByLength(d) ==
    IF d = <<>> THEN <<>>
    ELSE LET longest == Max({ Len(d[i][1]) : i \in 1..Len(d) })
         IN  SelectSeq(d, LAMBDA e : Len(e[1]) = longest)
             \o sortedByLength(SelectSeq(d, LAMBDA e : Len(e[1]) # longest))

\* "Group by anchor" of the mark-to-base and mark-to-mark contexts: the dict
\* anchor key -> list of single-anchor attachments
RECURSIVE GroupByAnchor(_, _)
GroupByAnchor(pairs, attachments) ==
    IF pairs = <<>> THEN attachments
    ELSE GroupByAnchor(Tail(pairs),
             DictSet(attachments, pairs[1][2].key,
                     Append(IF pairs[1][2].key \in DictKeys(attachments)
                            THEN DictVal(attachments, pairs[1][2].key) ELSE <<>>,
                            [ name |-> pairs[1][1], marks |-> << pairs[1][2] >> ])))

\* The numbers of the numbered anchors with a key of a glyph in the lists
NumbersOf(glyphName, lists) ==
    LET anchors == lists[CHOOSE i \in 1..Len(lists) : lists[i][1] = glyphName][2]
    IN  { anchors[j].number :
            j \in { k \in 1..Len(anchors) :
                      anchors[k].key # <<>> /\ anchors[k].number # None } }

\* "Group by anchor" of the mark-to-ligature contexts: marks is [[]] * max(...)
\* with marks[anchor.number - 1] = [anchor].  The result carries the
\* exception of max() of an empty sequence.
RECURSIVE GroupLigaByAnchor(_, _, _)
GroupLigaByAnchor(pairs, lists, r) ==
    IF pairs = <<>> \/ r.error # "none" THEN r
    ELSE IF NumbersOf(pairs[1][1], lists) = {}
    THEN Raised("ValueError: max() arg is an empty sequence")
    ELSE IF pairs[1][2].number > Max(NumbersOf(pairs[1][1], lists))
    THEN Raised("IndexError")
    ELSE GroupLigaByAnchor(Tail(pairs), lists,
             Returned(DictSet(r.value, pairs[1][2].key,
                 Append(IF pairs[1][2].key \in DictKeys(r.value)
                        THEN DictVal(r.value, pairs[1][2].key) ELSE <<>>,
                        [ name |-> pairs[1][1],
                          marks |-> [ c \in 1..Max(NumbersOf(pairs[1][1], lists)) |->
                                        IF c = pairs[1][2].number
                                        THEN << pairs[1][2] >> ELSE <<>> ] ]))))

\* The loops over the sorted contexts of _makeMarkFeature and
\* _makeMkmkFeature
RECURSIVE ContextualLookups(_, _, _, _, _, _)
ContextualLigaLookups(grouped, contexts, lists, st, prefix, markClasses) ==
    IF grouped.error # "none" THEN [ st EXCEPT !.error = grouped.error ]
    ELSE ContextualLookups("liga", Tail(contexts), lists,
             makeContextualMarkLookup(grouped.value, contexts[1][1], st, prefix, markClasses),
             prefix, markClasses)
ContextualLookups(kind, contexts, lists, st, prefix, markClasses) ==
    IF contexts = <<>> \/ st.error # "none" THEN st
    ELSE IF kind = "liga"
    THEN ContextualLigaLookups(GroupLigaByAnchor(contexts[1][2], lists, Returned(<<>>)),
                               contexts, lists, st, prefix, markClasses)
    ELSE ContextualLookups(kind, Tail(contexts), lists,
             makeContextualMarkLookup(GroupByAnchor(contexts[1][2], <<>>),
                                      contexts[1][1], st, prefix, markClasses),
             prefix, markClasses)

\* ast.LookupReferenceStatement(lookup)
LookupReference(lookup) == [ lookup |-> lookup.name ]
LookupReferences(lkps) == [ i \in 1..Len(lkps) |-> LookupReference(lkps[i]) ]

\* "return None, []" of the feature makers, and what they return: the
\* feature block [ tag, statements ], the lookups to insert outside of it,
\* and the exception raised if any
NoFeature == [ tag |-> "None", statements |-> <<>> ]

\* (mutant) the dispatch lookups are referenced before the other lookups
MadeFeature_DispatchFirst(tag, plainLkps, st) ==
    IF st.error # "none"
    THEN [ error |-> st.error, feature |-> NoFeature, lookups |-> <<>> ]
    ELSE IF plainLkps = <<>> /\ st.ctxLkps = <<>>
    THEN [ error |-> "none", feature |-> NoFeature, lookups |-> <<>> ]
    ELSE IF st.ctxLkps # <<>>
    THEN [ error |-> "none",
           feature |-> [ tag |-> tag,
                         statements |-> LookupReferences(DictValues(st.ctxLkps) \o plainLkps) ],
           lookups |-> plainLkps \o st.refLkps \o DictValues(st.ctxLkps) ]
    ELSE [ error |-> "none",
           feature |-> [ tag |-> tag, statements |-> plainLkps ],
           lookups |-> <<>> ]

\* (mutant) the standalone lookups of the dispatch rules are not returned
MadeFeature_NoStandalone(tag, plainLkps, st) ==
    IF st.error # "none"
    THEN [ error |-> st.error, feature |-> NoFeature, lookups |-> <<>> ]
    ELSE IF plainLkps = <<>> /\ st.ctxLkps = <<>>
    THEN [ error |-> "none", feature |-> NoFeature, lookups |-> <<>> ]
    ELSE IF st.ctxLkps # <<>>
    THEN [ error |-> "none",
           feature |-> [ tag |-> tag,
                         statements |-> LookupReferences(plainLkps \o DictValues(st.ctxLkps)) ],
           lookups |-> plainLkps \o DictValues(st.ctxLkps) ]
    ELSE [ error |-> "none",
           feature |-> [ tag |-> tag, statements |-> plainLkps ],
           lookups |-> <<>> ]

MadeFeature(tag, plainLkps, st) ==
    IF st.error # "none"
    THEN [ error |-> st.error, feature |-> NoFeature, lookups |-> <<>> ]
    ELSE IF plainLkps = <<>> /\ st.ctxLkps = <<>>
    THEN [ error |-> "none", feature |-> NoFeature, lookups |-> <<>> ]
    ELSE IF st.ctxLkps # <<>>
    THEN [ error |-> "none",
           feature |-> [ tag |-> tag,
                         statements |-> LookupReferences(plainLkps \o DictValues(st.ctxLkps)) ],
           lookups |-> plainLkps \o st.refLkps \o DictValues(st.ctxLkps) ]
    ELSE [ error |-> "none",
           feature |-> [ tag |-> tag, statements |-> plainLkps ],
           lookups |-> <<>> ]

\* _makeMarkFeature.  ctx holds the contextual anchors (base, liga, mark),
\* lists is context.anchorLists.
makeMarkFeature(groupedBase, groupedLiga, include, ctx, lists, markClasses) ==
    MadeFeature("mark",
        makeMarkLookups(mark2base, "base", groupedBase, include, "None", <<>>)
        \o makeMarkLookups(mark2liga, "liga", groupedLiga, include, "None", <<>>),
        ContextualLookups("liga", sortedByLength(ctx.liga), lists,
            ContextualLookups("base", sortedByLength(ctx.base), lists, NoLookups,
                              ContextualMark, markClasses),
            ContextualMark, markClasses))

\* _makeMkmkFeature
makeMkmkFeature(markToMark, include, ctx, lists, markClasses, registry) ==
    MadeFeature("mkmk",
        makeMarkToMarkLookups(markToMark, include, "None", <<>>, markClasses, registry),
        ContextualLookups("mark", sortedByLength(ctx.mark), lists, NoLookups,
                          ContextualMarkToMark, markClasses))

\* _makeAbvmOrBlwmFeature: the feature block or NoFeature
makeAbvmOrBlwmFeature(tag, groupedBase, groupedLiga, markToMark, include, markClasses, registry) ==
    LET marksFilter == IF tag = "abvm" THEN "above" ELSE "below"
        prefix == IF tag = "abvm" THEN << "a", "b", "v", "m", "_" >>
                  ELSE << "b", "l", "w", "m", "_" >>
        baseLkps == makeMarkLookups(prefix \o mark2base, "base", groupedBase, include,
                                    marksFilter, <<>>)
        ligaLkps == makeMarkLookups(prefix \o mark2liga, "liga", groupedLiga, include,
                                    marksFilter, <<>>)
        mkmkLookups == makeMarkToMarkLookups(markToMark, include, marksFilter, prefix,
                                             markClasses, registry)
    IN  IF baseLkps = <<>> /\ ligaLkps = <<>> /\ mkmkLookups = <<>> THEN NoFeature
        ELSE [ tag |-> tag, statements |-> baseLkps \o ligaLkps \o mkmkLookups ]

\* The context before setContext has run
NoContext ==
    [ anchorLists |-> <<>>, anchorPairs |-> {}, markGlyphNames |-> {},
      markClasses |-> <<>>, newClassDefs |-> <<>>,
      markToBaseAttachments |-> <<>>, markToLigaAttachments |-> <<>>,
      groupedMarkToBaseAttachments |-> <<>>, groupedMarkToLigaAttachments |-> <<>>,
      markToMarkAttachments |-> <<>>,
      contextualMarkToBaseAnchors |-> <<>>, contextualMarkToLigaAnchors |-> <<>>,
      contextualMarkToMarkAnchors |-> <<>>, features |-> <<>>, lookups |-> <<>> ]

\* The feature file: its mark class registry and the statements inserted
\* (feaFile.statements), the scripts of its languagesystem statements and the
\* single substitutions of its GSUB features (from glyph, to glyph)
EmptyFeaFile ==
    [ markClasses |-> <<>>, statements |-> <<>>, scripts |-> {}, substitutions |-> {} ]

\* The state of the specifications in which no writer runs
WriterIdle ==
    /\ font = <<>>
    /\ gdefClasses = [ defined |-> FALSE, base |-> {}, ligature |-> {}, mark |-> {} ]
    /\ groupMarkClassesOption = FALSE
    /\ todo = {}
    /\ feaFile = EmptyFeaFile
    /\ pc = "idle"
    /\ raised = "none"
    /\ context = NoContext

\* No call of _defineMarkClass is recorded
NoCall ==
    [ glyphName |-> "None", x |-> 0, y |-> 0, className |-> <<>>,
      before |-> <<>>, mcdef |-> NoDef ]
DefineIdle == defineCall = NoCall

\* No call of _makeMarkClassDefinitions is recorded
ClassIdle == markGlyphSets = <<>> /\ classRuns = <<>>

\* No call of _groupMarkClasses is recorded
NotGrouped == [ done |-> FALSE, groups |-> <<>> ]
GroupIdle == markGlyphClasses = <<>> /\ classGroups = NotGrouped

\* No call of _isAboveMark is recorded
NoAnchor == [ name |-> <<>>, x |-> 0, y |-> 0 ]
NotClassified == [ done |-> FALSE, above |-> FALSE, below |-> FALSE, moved |-> FALSE ]
AboveIdle == markAnchor = NoAnchor /\ aboveBelow = NotClassified

\* No call of _getAbvmGlyphs is recorded
NoAbvmCall == [ done |-> FALSE, abvmGlyphs |-> {}, notAbvmGlyphs |-> {} ]
AbvmIdle == abvmCall = NoAbvmCall

\* _build_production_names is not called
ProductionIdle ==
    /\ glyphOrder = <<>>
    /\ sourceGlyphs = {}
    /\ postscriptNames = <<>>
    /\ position = 0
    /\ seen = <<>>
    /\ rename_map = <<>>
    /\ uniqueCalls = <<>>

\* setContext: the anchor lists and the anchor pairs, or the exception of a
\* malformed anchor name
SetContext ==
    /\ pc = "start"
    /\ LET lists == getAnchorLists(font, gdefClasses)
       IN  IF lists.error # "none"
           THEN /\ raised' = lists.error
                /\ pc' = "raised"
                /\ UNCHANGED context
           ELSE /\ context' = [ NoContext EXCEPT
                                  !.anchorLists = lists.value,
                                  !.anchorPairs = getAnchorPairs(lists.value) ]
                /\ pc' = "context"
                /\ UNCHANGED raised
    /\ UNCHANGED <<inputVars, feaFile, parseVars, colorVars, defineCall, classVars, groupVars, aboveVars, abvmCall, productionVars>>

\* (mutant) the anchor pairs are not looked at
ShouldContinue_IgnorePairs ==
    /\ pc = "context"
    /\ pc' = IF todo = {} THEN "skipped" ELSE "write"
    /\ UNCHANGED <<inputVars, feaFile, raised, context, parseVars, colorVars, defineCall, classVars, groupVars, aboveVars, abvmCall, productionVars>>

\* shouldContinue: False without anchor pairs, else what the base class
\* answers (whether there is a feature left to do)
ShouldContinue ==
    /\ pc = "context"
    /\ pc' = IF context.anchorPairs = {} THEN "skipped"
             ELSE IF todo = {} THEN "skipped"
             ELSE "write"
    /\ UNCHANGED <<inputVars, feaFile, raised, context, parseVars, colorVars, defineCall, classVars, groupVars, aboveVars, abvmCall, productionVars>>

\* What _makeFeatures returns: the features in the order of
\* sorted(features.keys()), the lookups of mark then those of mkmk, and the
\* exception raised if any
MadeFeatures(mark, mkmk, abvm, blwm) ==
    IF mark.error # "none"
    THEN [ error |-> mark.error, features |-> <<>>, lookups |-> <<>> ]
    ELSE IF mkmk.error # "none"
    THEN [ error |-> mkmk.error, features |-> <<>>, lookups |-> <<>> ]
    ELSE [ error |-> "none",
           features |-> SelectSeq(<< abvm, blwm, mark.feature, mkmk.feature >>,
                                  LAMBDA f : f # NoFeature),
           lookups |-> mark.lookups \o mkmk.lookups ]

\* The features of _makeFeatures, from the attachments it has made; glyphs
\* is what _getAbvmGlyphs returns, features the set context.todo
makeFeatures(groupedBase, groupedLiga, markToMark, ctx, lists, glyphs, features, markClasses, registry) ==
    MadeFeatures(
        IF "mark" \in features
        THEN makeMarkFeature(groupedBase, groupedLiga, glyphs.notAbvmGlyphs,
                             ctx, lists, markClasses)
        ELSE [ error |-> "none", feature |-> NoFeature, lookups |-> <<>> ],
        IF "mkmk" \in features
        THEN makeMkmkFeature(markToMark, glyphs.notAbvmGlyphs, ctx, lists,
                             markClasses, registry)
        ELSE [ error |-> "none", feature |-> NoFeature, lookups |-> <<>> ],
        IF "abvm" \in features /\ glyphs.abvmGlyphs # {}
        THEN makeAbvmOrBlwmFeature("abvm", groupedBase, groupedLiga, markToMark,
                                   glyphs.abvmGlyphs, markClasses, registry)
        ELSE NoFeature,
        IF "blwm" \in features /\ glyphs.abvmGlyphs # {}
        THEN makeAbvmOrBlwmFeature("blwm", groupedBase, groupedLiga, markToMark,
                                   glyphs.abvmGlyphs, markClasses, registry)
        ELSE NoFeature)

\* The end of _write: the exception of _makeFeatures, or "return False"
\* without features, or _insert of the new class definitions, the lookups
\* and the features
Insert(newContext, defs, made) ==
    /\ context' = [ newContext EXCEPT !.features = made.features,
                                      !.lookups = made.lookups ]
    /\ feaFile' =
          [ feaFile EXCEPT
              !.markClasses = defs.currentClasses,
              !.statements =
                  IF made.features = <<>> THEN @
                  ELSE @ \o defs.newDefs \o made.lookups \o made.features ]
    /\ pc' = IF made.error # "none" THEN "raised"
             ELSE IF made.features = <<>> THEN "nothing" ELSE "written"
    /\ raised' = made.error

\* The steps of _makeFeatures that follow the attachments: the grouping in
\* one of the orders the sets of mark classes may have, and the features
WriteFeatures(lists, grouped, defs, base, liga, markToMark, ctx, classes) ==
    \E keyOrder \in Perms(classes), iterOrder \in Perms(classes) :
        LET groupedBase ==
                groupAttachments("base", base, groupMarkClassesOption,
                    defs.allMarkClasses, defs.currentClasses,
                    Restrict(keyOrder, ReferencedClasses("base", base)), iterOrder)
            groupedLiga ==
                groupAttachments("liga", liga, groupMarkClassesOption,
                    defs.allMarkClasses, defs.currentClasses,
                    Restrict(keyOrder, ReferencedClasses("liga", liga)), iterOrder)
        IN  Insert([ anchorLists |-> lists,
                     anchorPairs |-> context.anchorPairs,
                     markGlyphNames |-> grouped.markGlyphNames,
                     markClasses |-> defs.allMarkClasses,
                     newClassDefs |-> defs.newDefs,
                     markToBaseAttachments |-> base,
                     markToLigaAttachments |-> liga,
                     groupedMarkToBaseAttachments |-> groupedBase,
                     groupedMarkToLigaAttachments |-> groupedLiga,
                     markToMarkAttachments |-> markToMark,
                     contextualMarkToBaseAnchors |-> ctx.base,
                     contextualMarkToLigaAnchors |-> ctx.liga,
                     contextualMarkToMarkAnchors |-> ctx.mark,
                     features |-> <<>>,
                     lookups |-> <<>> ],
                   defs,
                   makeFeatures(groupedBase, groupedLiga, markToMark, ctx, lists,
                                getAbvmGlyphs(font, feaFile), todo,
                                defs.allMarkClasses, defs.currentClasses))

\* The attachments of _makeFeatures
WriteAttachments(lists, grouped, defs, base, liga) ==
    WriteFeatures(lists, grouped, defs, base, liga,
        makeMarkToMarkAttachments(lists, grouped.markGlyphNames),
        makeContextualAttachments(lists, grouped.markGlyphNames, gdefClasses),
        IF groupMarkClassesOption
        THEN ReferencedClasses("base", base) \cup ReferencedClasses("liga", liga)
        ELSE {})

\* _write: _pruneUnusedAnchors, _makeMarkClassDefinitions (which defines the
\* new classes in the registry of the feature file),
\* _setBaseAnchorMarkClasses, _makeFeatures, and _insert if there is a feature.
Write ==
    /\ pc = "write"
    /\ LET pruned == pruneUnusedAnchors(context.anchorLists, context.anchorPairs)
           grouped == groupMarkGlyphsByAnchor(pruned, context.anchorPairs, gdefClasses)
           defs == makeMarkClassDefinitions(grouped.groups, feaFile.markClasses)
           lists == setBaseAnchorMarkClasses(pruned, defs.allMarkClasses)
       IN  WriteAttachments(lists, grouped, defs,
               makeMarkToBaseAttachments(lists, grouped.markGlyphNames, gdefClasses),
               makeMarkToLigaAttachments(lists, grouped.markGlyphNames, gdefClasses))
    /\ UNCHANGED <<inputVars, parseVars, colorVars, defineCall, classVars, groupVars, aboveVars, abvmCall, productionVars>>

\* The state before the graph is coloured, and of the specifications that colour none
NotColored == << "not colored" >>
ColorIdle == adjacency = <<>> /\ colorGroups = NotColored

(***************************************************************************)
(* Specification SpecParse: one anchor name is parsed.                     *)
(***************************************************************************)
MaxNameLen == 4
ParseAlphabet == { "t", "_", "0", "1", "3", "*", "." }

InitParse ==
    /\ anchorName \in StringsOver(ParseAlphabet, 1, MaxNameLen)
    /\ libData \in BOOLEAN
    /\ parsed = NotParsed
    /\ named = NotParsed
    /\ ColorIdle
    /\ WriterIdle
    /\ DefineIdle
    /\ ClassIdle
    /\ GroupIdle
    /\ AboveIdle
    /\ AbvmIdle
    /\ ProductionIdle

\* parsed: what parseAnchorName returns; named: what NamedAnchor(name, ...) gives.
ParseStep ==
    /\ parsed = NotParsed
    /\ parsed' = parseAnchorName(anchorName, libData)
    /\ named' = NamedAnchorInit(anchorName, libData)
    /\ UNCHANGED <<anchorName, libData, colorVars, writerVars, defineCall, classVars, groupVars, aboveVars, abvmCall, productionVars>>

NextParse == ParseStep
SpecParse == InitParse /\ [][NextParse]_vars

(***************************************************************************)
(* Specification SpecColor: colorGraph is applied to one symmetric graph,  *)
(* given as a dict in any insertion order with neighbours in any order.    *)
(***************************************************************************)
MaxVertices == 3
VertexPool ==
    << << "M", "C", "_", "t", "o", "p" >>,
       << "M", "C", "_", "b", "o", "t" >>,
       << "M", "C", "_", "t", "o", "p", "_", "1" >>,
       << "M", "C", "_", "a" >>,
       << "M", "C", "_", "t" >> >>
Vertices == { VertexPool[i] : i \in 1..MaxVertices }

\* The dict of a graph (V, E): keys in the order keyOrder, each neighbour
\* collection in the order iterOrder.
AdjacencyOf(V, E, keyOrder, iterOrder) ==
    [ i \in 1..Len(keyOrder) |->
        << keyOrder[i],
           Restrict(iterOrder, { w \in V : { keyOrder[i], w } \in E }) >> ]

InitColor ==
    /\ \E V \in SUBSET Vertices :
        \E E \in SUBSET { e \in SUBSET V : Cardinality(e) = 2 } :
            \E keyOrder \in Perms(V), iterOrder \in Perms(V) :
                adjacency = AdjacencyOf(V, E, keyOrder, iterOrder)
    /\ colorGroups = NotColored
    /\ ParseIdle
    /\ WriterIdle
    /\ DefineIdle
    /\ ClassIdle
    /\ GroupIdle
    /\ AboveIdle
    /\ AbvmIdle
    /\ ProductionIdle

ColorStep ==
    /\ colorGroups = NotColored
    /\ colorGroups' = colorGraph(adjacency)
    /\ UNCHANGED <<adjacency, parseVars, writerVars, defineCall, classVars, groupVars, aboveVars, abvmCall, productionVars>>

NextColor == ColorStep
SpecColor == InitColor /\ [][NextColor]_vars

(***************************************************************************)
(* Specification Spec: the writer runs once on a font.  Glyph i of the     *)
(* font is GlyphPool[i] and takes its anchors from AnchorPool[i]; the font *)
(* holds at most MaxAnchors anchors.                                       *)
(***************************************************************************)
MaxAnchors == 4

Raw(name, x) == [ name |-> name, x |-> x, y |-> 0, lib |-> FALSE, context |-> <<>> ]

GlyphPool == << "a", "f_f", "acutecomb" >>
AnchorPool ==
    << { Raw(N_top, 0), Raw(N_top, 3), Raw(N_bottom, 0), Raw(<<>>, 0),
         Raw(<< "_" >> \o N_top \o << "_", "1" >>, 0) },
       { Raw(N_top \o << "_", "1" >>, 0), Raw(N_bottom \o << "_", "1" >>, 0),
         Raw(N_top \o << "_", "2" >>, 0), Raw(<< "_", "2" >>, 0) },
       { Raw(<< "_" >> \o N_top, 3), Raw(<< "_" >> \o N_bottom, 0), Raw(N_top, 0),
         Raw(<< "_" >>, 0) } >>

\* The anchors of one glyph: at most budget anchors of the pool
AnchorsOver(pool, budget) == StringsOver(pool, 0, budget)
Glyph(i, anchors) ==
    [ name |-> GlyphPool[i], anchors |-> anchors, unicode |-> NoUnicode ]

NoGDEF == [ defined |-> FALSE, base |-> {}, ligature |-> {}, mark |-> {} ]
GDEFPool ==
    { NoGDEF,
      [ defined |-> TRUE, base |-> { "a" }, ligature |-> {}, mark |-> { "acutecomb" } ] }

AllFeatures == { "mark", "mkmk", "abvm", "blwm" }

\* The feature file is empty, or already holds a mark class MC_top that
\* defines acutecomb at (1, 0)
MC_top == markClassPrefix \o << "_" >> \o N_top
FeaFilePool ==
    { EmptyFeaFile,
      [ EmptyFeaFile EXCEPT
          !.markClasses = << << MC_top, << << "acutecomb", << 1, 0 >> >> >> >> >> ] }

Init ==
    /\ \E a1 \in AnchorsOver(AnchorPool[1], MaxAnchors) :
         \E a2 \in AnchorsOver(AnchorPool[2], MaxAnchors - Len(a1)) :
           \E a3 \in AnchorsOver(AnchorPool[3], MaxAnchors - Len(a1) - Len(a2)) :
             font = << Glyph(1, a1), Glyph(2, a2), Glyph(3, a3) >>
    /\ gdefClasses \in GDEFPool
    /\ groupMarkClassesOption \in BOOLEAN
    /\ todo = AllFeatures
    /\ feaFile \in FeaFilePool
    /\ pc = "start"
    /\ raised = "none"
    /\ context = NoContext
    /\ ParseIdle
    /\ ColorIdle
    /\ DefineIdle
    /\ ClassIdle
    /\ GroupIdle
    /\ AboveIdle
    /\ AbvmIdle
    /\ ProductionIdle

Next == SetContext \/ ShouldContinue \/ Write
Spec == Init /\ [][Next]_vars

(***************************************************************************)
(* Specification SpecDefine: _defineMarkClass is called on the registry of *)
(* the feature file, again and again, until the registry holds             *)
(* MaxDefinitions glyph definitions.                                       *)
(***************************************************************************)
MaxDefinitions == 3

DefineGlyphPool == { "acutecomb", "gravecomb" }
DefinePosPool == { << 0, 0 >>, << 3, 0 >>, << 4, 0 >>, << 0, 3 >> }
DefineClassPool == { MC_top, MC_top \o << "_", "1" >>, markClassPrefix \o << "_" >> \o N_bottom }

\* The number of glyph definitions in the registry
RECURSIVE DefinitionCount(_)
DefinitionCount(markClasses) ==
    IF markClasses = <<>> THEN 0
    ELSE Len(markClasses[1][2]) + DefinitionCount(Tail(markClasses))

InitDefine ==
    /\ ParseIdle
    /\ ColorIdle
    /\ WriterIdle
    /\ DefineIdle
    /\ ClassIdle
    /\ GroupIdle
    /\ AboveIdle
    /\ AbvmIdle
    /\ ProductionIdle

\* self._defineMarkClass(glyphName, x, y, className, markClasses)
DefineStep ==
    /\ DefinitionCount(feaFile.markClasses) < MaxDefinitions
    /\ \E glyphName \in DefineGlyphPool, pos \in DefinePosPool,
          className \in DefineClassPool :
         /\ feaFile' = [ feaFile EXCEPT !.markClasses =
                           defineMarkClass(glyphName, pos[1], pos[2], className,
                                           feaFile.markClasses).markClasses ]
         /\ defineCall' =
              [ glyphName |-> glyphName, x |-> pos[1], y |-> pos[2],
                className |-> className, before |-> feaFile.markClasses,
                mcdef |-> defineMarkClass(glyphName, pos[1], pos[2], className,
                                          feaFile.markClasses).mcdef ]
    /\ UNCHANGED <<inputVars, pc, raised, context, parseVars, colorVars, classVars, groupVars, aboveVars, abvmCall, productionVars>>

NextDefine == DefineStep
SpecDefine == InitDefine /\ [][NextDefine]_vars

(***************************************************************************)
(* Specification SpecClasses: _makeMarkClassDefinitions is called MaxRuns  *)
(* times on the same grouped mark glyphs, each call on the registry the    *)
(* call before left, and each followed by the grouping of the mark classes *)
(* that _groupAttachments makes without options.groupMarkClasses.  The     *)
(* groups hold up to two mark glyphs under up to four mark anchor names,   *)
(* two of which differ only by a character that is illegal in a class      *)
(* name; the document starts empty or with a class MC_top that defines     *)
(* acutecomb at (2, 0) and gravecomb at (0, 0).                            *)
(***************************************************************************)
MaxRuns == 2

ClassGlyphPool == { "acutecomb", "gravecomb" }
ClassCoordPool == { None, 0, 3 }
N_tostarp == << "t", "o", "*", "p" >>
N_topalt == N_top \o << ".", "a", "l", "t" >>
ClassDocPool ==
    { EmptyFeaFile,
      [ EmptyFeaFile EXCEPT
          !.markClasses = << << MC_top, << << "acutecomb", << 2, 0 >> >>,
                                          << "gravecomb", << 0, 0 >> >> >> >> >> ] }

\* The group of one mark anchor name: the glyphs of order that carry the
\* anchor (at[g] is its x coordinate, None when g has no such anchor)
MarkGroup(name, order, at) ==
    LET present == SelectSeq(order, LAMBDA g : at[g] # None)
    IN  [ i \in 1..Len(present) |->
            << present[i],
               NamedAnchor(Raw(name, at[present[i]]), at[present[i]], 0) >> ]

\* groups: the non-empty groups, keyed by mark anchor name
MarkGroups(order, atTop, atBottom, atStar, atAlt) ==
    SelectSeq(<< << << "_" >> \o N_top, MarkGroup(<< "_" >> \o N_top, order, atTop) >>,
                 << << "_" >> \o N_bottom, MarkGroup(<< "_" >> \o N_bottom, order, atBottom) >>,
                 << << "_" >> \o N_tostarp, MarkGroup(<< "_" >> \o N_tostarp, order, atStar) >>,
                 << << "_" >> \o N_topalt, MarkGroup(<< "_" >> \o N_topalt, order, atAlt) >> >>,
              LAMBDA e : e[2] # <<>>)

InitClasses ==
    /\ \E order \in Perms(ClassGlyphPool) :
         \E atTop \in [ClassGlyphPool -> ClassCoordPool] :
           \E atBottom \in [ClassGlyphPool -> ClassCoordPool] :
             \E atStar \in [ClassGlyphPool -> ClassCoordPool] :
               \E atAlt \in [ClassGlyphPool -> ClassCoordPool] :
                 markGlyphSets = MarkGroups(order, atTop, atBottom, atStar, atAlt)
    /\ classRuns = <<>>
    /\ font = <<>>
    /\ gdefClasses = NoGDEF
    /\ groupMarkClassesOption = FALSE
    /\ todo = {}
    /\ feaFile \in ClassDocPool
    /\ pc = "idle"
    /\ raised = "none"
    /\ context = NoContext
    /\ ParseIdle
    /\ ColorIdle
    /\ DefineIdle
    /\ GroupIdle
    /\ AboveIdle
    /\ AbvmIdle
    /\ ProductionIdle

\* The record of one call: the registry before and after it, the
\* definitions it returned, context.markClasses, and groupedMarkClasses of
\* _groupAttachments
ClassRun(before, r) ==
    [ before |-> before, after |-> r.currentClasses, newDefs |-> r.newDefs,
      markClasses |-> r.allMarkClasses,
      groupedMarkClasses |-> oneGroupPerMarkClass(r.allMarkClasses) ]

\* newDefs = self._makeMarkClassDefinitions(), then the mark classes are
\* grouped
ClassStep ==
    /\ Len(classRuns) < MaxRuns
    /\ classRuns' =
          Append(classRuns,
                 ClassRun(feaFile.markClasses,
                          makeMarkClassDefinitions(markGlyphSets, feaFile.markClasses)))
    /\ feaFile' =
          [ feaFile EXCEPT !.markClasses =
              makeMarkClassDefinitions(markGlyphSets, feaFile.markClasses).currentClasses ]
    /\ UNCHANGED <<inputVars, pc, raised, context, parseVars, colorVars, defineCall,
                   markGlyphSets, groupVars, aboveVars, abvmCall, productionVars>>

NextClasses == ClassStep
SpecClasses == InitClasses /\ [][NextClasses]_vars

(***************************************************************************)
(* Specification SpecGroup: _groupMarkClasses is called on one dict        *)
(* markGlyphToMarkClasses, for every iteration order of its sets.  The     *)
(* dict gives each of up to two mark glyphs a non-empty set of mark        *)
(* classes, at most MaxClasses classes in all.  The class of the key top   *)
(* is MC_top or, after a split, MC_top_1, never both in one run.           *)
(***************************************************************************)
MaxClasses == 3

MC_bottom == markClassPrefix \o << "_" >> \o N_bottom
MC_top_1 == MC_top \o << "_", "1" >>
MC_ring == markClassPrefix \o << "_", "r", "i", "n", "g" >>
MC_topright == MC_top \o << "r", "i", "g", "h", "t" >>
GroupClassPool == { MC_bottom, MC_ring, MC_top, MC_top_1, MC_topright }
GroupGlyphPool == { "acutecomb", "gravecomb" }

\* The dicts: mark glyph -> non-empty set of classes
GlyphClassDicts ==
    { d \in UNION { [G -> (SUBSET GroupClassPool) \ { {} }] : G \in SUBSET GroupGlyphPool } :
        /\ Cardinality(UNION { d[g] : g \in DOMAIN d }) <= MaxClasses
        /\ ~({ MC_top, MC_top_1 } \subseteq UNION { d[g] : g \in DOMAIN d }) }

InitGroup ==
    /\ markGlyphClasses \in GlyphClassDicts
    /\ classGroups = NotGrouped
    /\ ParseIdle
    /\ ColorIdle
    /\ WriterIdle
    /\ DefineIdle
    /\ ClassIdle
    /\ AboveIdle
    /\ AbvmIdle
    /\ ProductionIdle

\* groupedMarkClasses = self._groupMarkClasses(markGlyphToMarkClasses)
GroupStep ==
    /\ ~classGroups.done
    /\ \E keyOrder \in Perms(UNION { markGlyphClasses[g] : g \in DOMAIN markGlyphClasses }) :
         \E iterOrder \in Perms(UNION { markGlyphClasses[g] : g \in DOMAIN markGlyphClasses }) :
           classGroups' =
               [ done |-> TRUE,
                 groups |-> groupMarkClasses(markGlyphClasses, keyOrder, iterOrder) ]
    /\ UNCHANGED <<markGlyphClasses, parseVars, colorVars, writerVars, defineCall, classVars,
                   aboveVars, abvmCall, productionVars>>

NextGroup == GroupStep
SpecGroup == InitGroup /\ [][NextGroup]_vars

(***************************************************************************)
(* Specification SpecAbove: _isAboveMark and _isBelowMark are called on    *)
(* one anchor, and _isAboveMark on an anchor of the same name at other     *)
(* coordinates.  The names are those of abvmAnchorNames and                *)
(* blwmAnchorNames, two other names, and what MaxAffixes of a mark prefix, *)
(* a contextual prefix, a component number, a suffix or a missing last     *)
(* letter make of them.                                                    *)
(***************************************************************************)
MaxAffixes == 1

N_ring == << "r", "i", "n", "g" >>
N_ogonek == << "o", "g", "o", "n", "e", "k" >>
AboveNamePool == abvmAnchorNames \cup blwmAnchorNames \cup { N_ring, N_ogonek }
AboveCoordPool == { 0, 3 }

\* The names made of the names of S by one more affix
Affixed(S) ==
    UNION { { << "_" >> \o n, << "*" >> \o n, n \o << "_", "1" >>,
              n \o << ".", "a", "l", "t" >>, SubSeq(n, 1, Len(n) - 1) } : n \in S }

RECURSIVE AboveNames(_)
AboveNames(k) ==
    IF k = 0 THEN AboveNamePool ELSE AboveNames(k - 1) \cup Affixed(AboveNames(k - 1))

InitAbove ==
    /\ \E name \in AboveNames(MaxAffixes) \ { <<>> } :
         \E x \in AboveCoordPool, y \in AboveCoordPool :
           markAnchor = [ name |-> name, x |-> x, y |-> y ]
    /\ aboveBelow = NotClassified
    /\ ParseIdle
    /\ ColorIdle
    /\ WriterIdle
    /\ DefineIdle
    /\ ClassIdle
    /\ GroupIdle
    /\ AbvmIdle
    /\ ProductionIdle

\* self._isAboveMark(anchor), self._isBelowMark(anchor), and
\* self._isAboveMark of the anchor moved to (x, y)
AboveStep ==
    /\ ~aboveBelow.done
    /\ \E x \in AboveCoordPool, y \in AboveCoordPool :
         aboveBelow' =
             [ done |-> TRUE, above |-> isAboveMark(markAnchor),
               below |-> isBelowMark(markAnchor),
               moved |-> isAboveMark([ markAnchor EXCEPT !.x = x, !.y = y ]) ]
    /\ UNCHANGED <<markAnchor, parseVars, colorVars, writerVars, defineCall, classVars,
                   groupVars, abvmCall, productionVars>>

NextAbove == AboveStep
SpecAbove == InitAbove /\ [][NextAbove]_vars

(***************************************************************************)
(* Specification SpecAbvm: _getAbvmGlyphs is called on a font of three     *)
(* glyphs, each with one of the code points of the model or none (all      *)
(* different), and a feature file that declares some scripts and holds at  *)
(* most MaxSubstitutions single substitutions.                             *)
(***************************************************************************)
MaxSubstitutions == 1

UnicodePool == { "U+0041", "U+0915", "U+0951", "U+1780" }
ScriptPool == { "Latn", "Deva", "Khmr" }
AbvmGlyphPool == << "a", "ka", "ka.alt" >>
SubstitutionPool == { << "ka", "ka.alt" >>, << "a", "ka.alt" >>, << "ka.alt", "a" >> }

InitAbvm ==
    /\ \E uv \in [1..Len(AbvmGlyphPool) -> UnicodePool \cup { NoUnicode }] :
         /\ \A i, j \in 1..Len(AbvmGlyphPool) :
               (i # j /\ uv[i] # NoUnicode) => uv[i] # uv[j]
         /\ font = [ i \in 1..Len(AbvmGlyphPool) |->
                       [ name |-> AbvmGlyphPool[i], anchors |-> <<>>, unicode |-> uv[i] ] ]
    /\ \E scripts \in SUBSET ScriptPool :
         \E substitutions \in { S \in SUBSET SubstitutionPool :
                                   Cardinality(S) <= MaxSubstitutions } :
           feaFile = [ EmptyFeaFile EXCEPT !.scripts = scripts,
                                           !.substitutions = substitutions ]
    /\ abvmCall = NoAbvmCall
    /\ gdefClasses = NoGDEF
    /\ groupMarkClassesOption = FALSE
    /\ todo = {}
    /\ pc = "idle"
    /\ raised = "none"
    /\ context = NoContext
    /\ ParseIdle
    /\ ColorIdle
    /\ DefineIdle
    /\ ClassIdle
    /\ GroupIdle
    /\ AboveIdle
    /\ ProductionIdle

\* abvmGlyphs, notAbvmGlyphs = self._getAbvmGlyphs()
AbvmStep ==
    /\ ~abvmCall.done
    /\ abvmCall' =
          [ done |-> TRUE,
            abvmGlyphs |-> getAbvmGlyphs(font, feaFile).abvmGlyphs,
            notAbvmGlyphs |-> getAbvmGlyphs(font, feaFile).notAbvmGlyphs ]
    /\ UNCHANGED <<parseVars, colorVars, writerVars, defineCall, classVars, groupVars,
                   aboveVars, productionVars>>

NextAbvm == AbvmStep
SpecAbvm == InitAbvm /\ [][NextAbvm]_vars

(***************************************************************************)
(* Specification SpecFeatures: the writer runs once on a font of a base    *)
(* glyph, a ligature and a mark, whose anchors are at most MaxFontAnchors  *)
(* of the anchors of FeatureAnchorPool, in the order of the pool.  Some of *)
(* the anchors are contextual: their name starts with "*" and their lib    *)
(* holds the lines of a context.  The base glyph and the mark have a code  *)
(* point of a script that uses abvm, or of another script, or none.        *)
(***************************************************************************)
MaxFontAnchors == 6

Contextual(name, x, lines) ==
    [ name |-> << "*" >> \o name, x |-> x, y |-> 0, lib |-> TRUE, context |-> lines ]

\* The contexts: "*", " a *;", "* a", "f;*" (a lookup flag before the
\* rule), "* & a"
Ctx_any == << "*" >>
Ctx_after_a == << " ", "a", " ", "*", ";" >>
Ctx_before_a == << "*", " ", "a" >>
Ctx_flag == << "f", ";", "*" >>
Ctx_marks == << "*", " ", "&", " ", "a" >>

\* FeatureAnchorPool[i] are the anchors glyph GlyphPool[i] may have
FeatureAnchorPool ==
    << << Raw(N_top, 0), Raw(N_bottom, 0),
          Contextual(N_top, 3, << Ctx_after_a >>),
          Contextual(N_topalt, 0, << Ctx_any, Ctx_flag >>),
          Contextual(N_bottom, 3, << Ctx_any >>) >>,
       << Raw(N_top \o << "_", "1" >>, 0), Raw(N_top \o << "_", "2" >>, 3),
          Contextual(N_top \o << "_", "1" >>, 3, << Ctx_marks >>) >>,
       << Raw(<< "_" >> \o N_top, 0), Raw(<< "_" >> \o N_bottom, 0), Raw(N_top, 3),
          Raw(N_bottom, 3), Contextual(N_top, 0, << Ctx_before_a, Ctx_flag >>) >> >>

\* The anchors of the pool at the indices S, in the order of the pool
Chosen(pool, S) == SelectSeq(pool, LAMBDA a : \E i \in S : pool[i] = a)

\* The code points of the base glyph and of the mark
FeatureUnicodePool ==
    { << "U+0041", NoUnicode >>, << "U+0915", NoUnicode >>, << "U+0951", "U+1780" >> }

\* No GDEF classes; the classes of the three glyphs; the mark in the base
\* class
FeatureGDEFPool ==
    { NoGDEF,
      [ defined |-> TRUE, base |-> { "a" }, ligature |-> { "f_f" },
        mark |-> { "acutecomb" } ],
      [ defined |-> TRUE, base |-> { "a", "acutecomb" }, ligature |-> { "f_f" },
        mark |-> {} ] }

InitFeatures ==
    /\ \E S1 \in SUBSET DOMAIN FeatureAnchorPool[1],
          S2 \in SUBSET DOMAIN FeatureAnchorPool[2],
          S3 \in SUBSET DOMAIN FeatureAnchorPool[3],
          uv \in FeatureUnicodePool :
         /\ Cardinality(S1) + Cardinality(S2) + Cardinality(S3) <= MaxFontAnchors
         /\ font = << [ name |-> GlyphPool[1],
                        anchors |-> Chosen(FeatureAnchorPool[1], S1),
                        unicode |-> uv[1] ],
                      [ name |-> GlyphPool[2],
                        anchors |-> Chosen(FeatureAnchorPool[2], S2),
                        unicode |-> NoUnicode ],
                      [ name |-> GlyphPool[3],
                        anchors |-> Chosen(FeatureAnchorPool[3], S3),
                        unicode |-> uv[2] ] >>
    /\ gdefClasses \in FeatureGDEFPool
    /\ groupMarkClassesOption \in BOOLEAN
    /\ todo = AllFeatures
    /\ feaFile = EmptyFeaFile
    /\ pc = "start"
    /\ raised = "none"
    /\ context = NoContext
    /\ ParseIdle
    /\ ColorIdle
    /\ DefineIdle
    /\ ClassIdle
    /\ GroupIdle
    /\ AboveIdle
    /\ AbvmIdle
    /\ ProductionIdle

SpecFeatures == InitFeatures /\ [][Next]_vars

(***************************************************************************)
(* Specification SpecMkmk: setContext, shouldContinue and _write on fonts  *)
(* with two glyphs that can be marks and attach marks, a and acutecomb, in *)
(* different scripts, with and without the mark class MC_top in the        *)
(* feature file.                                                           *)
(***************************************************************************)
MkmkAnchorPool ==
    << << Raw(<< "_" >> \o N_top, 3), Raw(N_top, 0), Raw(N_top \o << "_", "1" >>, 0) >>,
       << Raw(N_top \o << "_", "1" >>, 0) >>,
       << Raw(<< "_" >> \o N_top, 0), Raw(<< "_" >> \o N_bottom, 0), Raw(N_top, 3),
          Raw(N_bottom, 3), Raw(N_top \o << "_", "1" >>, 0),
          Contextual(N_top, 0, << Ctx_any >>) >> >>

\* The code points of a and of acutecomb
MkmkUnicodePool ==
    { << NoUnicode, NoUnicode >>, << "U+0915", NoUnicode >>,
      << "U+0915", "U+1780" >>, << NoUnicode, "U+1780" >> }

\* No GDEF classes; both glyphs in the mark class; only acutecomb in it
MkmkGDEFPool ==
    { NoGDEF,
      [ defined |-> TRUE, base |-> {}, ligature |-> { "f_f" },
        mark |-> { "a", "acutecomb" } ],
      [ defined |-> TRUE, base |-> { "a" }, ligature |-> { "f_f" },
        mark |-> { "acutecomb" } ] }

InitMkmk ==
    /\ \E S1 \in SUBSET DOMAIN MkmkAnchorPool[1],
          S2 \in SUBSET DOMAIN MkmkAnchorPool[2],
          S3 \in SUBSET DOMAIN MkmkAnchorPool[3],
          uv \in MkmkUnicodePool :
         font = << [ name |-> GlyphPool[1],
                     anchors |-> Chosen(MkmkAnchorPool[1], S1),
                     unicode |-> uv[1] ],
                   [ name |-> GlyphPool[2],
                     anchors |-> Chosen(MkmkAnchorPool[2], S2),
                     unicode |-> NoUnicode ],
                   [ name |-> GlyphPool[3],
                     anchors |-> Chosen(MkmkAnchorPool[3], S3),
                     unicode |-> uv[2] ] >>
    /\ gdefClasses \in MkmkGDEFPool
    /\ groupMarkClassesOption \in BOOLEAN
    /\ todo = AllFeatures
    /\ feaFile \in FeaFilePool
    /\ pc = "start"
    /\ raised = "none"
    /\ context = NoContext
    /\ ParseIdle
    /\ ColorIdle
    /\ DefineIdle
    /\ ClassIdle
    /\ GroupIdle
    /\ AboveIdle
    /\ AbvmIdle
    /\ ProductionIdle

SpecMkmk == InitMkmk /\ [][Next]_vars

(***************************************************************************)
(* Specification SpecContext: setContext, shouldContinue and _write on     *)
(* fonts whose anchors are contextual, with contexts that share the part   *)
(* before ";", that have no "*" and no "&", or that have two ";".          *)
(***************************************************************************)
Ctx_flag_a == << "f", ";", "a", " ", "*" >>
Ctx_none == << "a", " ", "b" >>
Ctx_two == << "f", ";", "g", ";", "*" >>

\* The context data of the anchors *top of a, *bottom of a, *top_1 of f_f
\* and *top of acutecomb; no lines: the glyph has no such anchor
ContextLinesPool ==
    << { <<>> } \cup { << c >> : c \in { Ctx_any, Ctx_flag, Ctx_flag_a, Ctx_none } }
           \cup { << c, d >> : c, d \in { Ctx_any, Ctx_flag, Ctx_flag_a, Ctx_none } },
       { <<>>, << Ctx_any >>, << Ctx_flag >>, << Ctx_none >> },
       { <<>>, << Ctx_any >>, << Ctx_flag_a >>, << Ctx_marks >> },
       { <<>>, << Ctx_any >>, << Ctx_flag >>, << Ctx_two >> } >>

\* The contextual anchor, when it has context data
Optional(name, x, lines) ==
    IF lines = <<>> THEN <<>> ELSE << Contextual(name, x, lines) >>

InitContext ==
    /\ \E l1 \in ContextLinesPool[1], l2 \in ContextLinesPool[2],
          l3 \in ContextLinesPool[3], l4 \in ContextLinesPool[4] :
         font = << Glyph(1, Optional(N_top, 0, l1) \o Optional(N_bottom, 3, l2)),
                   Glyph(2, Optional(N_top \o << "_", "1" >>, 0, l3)),
                   Glyph(3, << Raw(<< "_" >> \o N_top, 0), Raw(<< "_" >> \o N_bottom, 0) >>
                            \o Optional(N_top, 3, l4)) >>
    /\ gdefClasses = NoGDEF
    /\ groupMarkClassesOption \in BOOLEAN
    /\ todo = AllFeatures
    /\ feaFile = EmptyFeaFile
    /\ pc = "start"
    /\ raised = "none"
    /\ context = NoContext
    /\ ParseIdle
    /\ ColorIdle
    /\ DefineIdle
    /\ ClassIdle
    /\ GroupIdle
    /\ AboveIdle
    /\ AbvmIdle
    /\ ProductionIdle

SpecContext == InitContext /\ [][Next]_vars

(***************************************************************************)
(* Specification SpecGrouping: setContext, shouldContinue and _write on    *)
(* fonts whose anchors top and to*p have mark classes of one name, with    *)
(* and without options.groupMarkClasses, with and without the class MC_top *)
(* in the feature file.                                                    *)
(***************************************************************************)
GroupingAnchorPool ==
    << << Raw(N_top, 0), Raw(N_tostarp, 3), Raw(N_bottom, 0) >>,
       << Raw(N_top \o << "_", "1" >>, 0), Raw(N_tostarp \o << "_", "1" >>, 3),
          Raw(N_top \o << "_", "2" >>, 0), Raw(N_bottom \o << "_", "2" >>, 3) >>,
       << Raw(<< "_" >> \o N_top, 0), Raw(<< "_" >> \o N_tostarp, 0),
          Raw(<< "_" >> \o N_bottom, 0) >> >>

InitGrouping ==
    /\ \E S1 \in SUBSET DOMAIN GroupingAnchorPool[1],
          S2 \in SUBSET DOMAIN GroupingAnchorPool[2],
          S3 \in SUBSET DOMAIN GroupingAnchorPool[3] :
         font = << Glyph(1, Chosen(GroupingAnchorPool[1], S1)),
                   Glyph(2, Chosen(GroupingAnchorPool[2], S2)),
                   Glyph(3, Chosen(GroupingAnchorPool[3], S3)) >>
    /\ gdefClasses = NoGDEF
    /\ groupMarkClassesOption \in BOOLEAN
    /\ todo = AllFeatures
    /\ feaFile \in FeaFilePool
    /\ pc = "start"
    /\ raised = "none"
    /\ context = NoContext
    /\ ParseIdle
    /\ ColorIdle
    /\ DefineIdle
    /\ ClassIdle
    /\ GroupIdle
    /\ AboveIdle
    /\ AbvmIdle
    /\ ProductionIdle

SpecGrouping == InitGrouping /\ [][Next]_vars

(***************************************************************************)
(* Production names (PostProcessor._build_production_names).  The          *)
(* production name of a glyph comes from the lib key of the PostScript     *)
(* names (self._postscriptNames, not empty), a dict glyph name -> name.    *)
(***************************************************************************)
MAX_GLYPH_NAME_LENGTH == 63

\* "%d" % n
DecimalDigits == << "0", "1", "2", "3", "4", "5", "6", "7", "8", "9" >>
RECURSIVE Decimal(_)
Decimal(n) ==
    IF n < 10 THEN << DecimalDigits[n + 1] >>
    ELSE Decimal(n \div 10) \o << DecimalDigits[(n % 10) + 1] >>

\* name + ".%d" % n
Suffixed(name, n) == name \o << "." >> \o Decimal(n)

\* GLYPH_NAME_INVALID_CHARS.sub("", name)
validName(name) ==
    SelectSeq(name, LAMBDA c : c \in Letters \cup Digits \cup { "_", "." })

\* (mutant) the suffix is seen[name], taken or not
unique_name_NoLoop(name, seenNames) ==
    IF name \in DictKeys(seenNames)
    THEN [ name |-> Suffixed(name, DictVal(seenNames, name)),
           seen |-> DictSet(DictSet(seenNames, name, DictVal(seenNames, name) + 1),
                            Suffixed(name, DictVal(seenNames, name)), 1) ]
    ELSE [ name |-> name, seen |-> DictSet(seenNames, name, 1) ]

\* The loop "while (name + '.%d' % n) in seen: n += 1": the first number
\* from n on whose suffixed name is not seen
FirstFree(name, n, seenNames) ==
    CHOOSE m \in n..(n + Len(seenNames)) :
        /\ Suffixed(name, m) \notin DictKeys(seenNames)
        /\ \A k \in n..(m - 1) : Suffixed(name, k) \in DictKeys(seenNames)

\* _unique_name(name, seen): the name returned and seen after the call
unique_name(name, seenNames) ==
    IF name \in DictKeys(seenNames)
    THEN LET n == FirstFree(name, DictVal(seenNames, name), seenNames)
         IN  [ name |-> Suffixed(name, n),
               seen |-> DictSet(DictSet(seenNames, name, n + 1), Suffixed(name, n), 1) ]
    ELSE [ name |-> name, seen |-> DictSet(seenNames, name, 1) ]

\* _build_production_name(glyph) with PostScript names in the lib
NoName == << >>
build_production_name(name, names) ==
    IF name \in DictKeys(names) /\ DictVal(names, name) # NoName
    THEN DictVal(names, name) ELSE name

\* valid_name of the body of the loop of _build_production_names
valid_name(name, names) ==
    LET prod_name == build_production_name(name, names)
    IN  IF name # prod_name
        THEN IF Len(validName(prod_name)) > MAX_GLYPH_NAME_LENGTH
             THEN validName(name) ELSE validName(prod_name)
        ELSE validName(name)

\* One round of the loop for a glyph of the source:
\* rename_map[name] = self._unique_name(valid_name, seen)
NameGlyph ==
    /\ position < Len(glyphOrder)
    /\ glyphOrder[position + 1] \in sourceGlyphs
    /\ LET name == glyphOrder[position + 1]
           unique == unique_name(valid_name(name, postscriptNames), seen)
       IN  /\ seen' = unique.seen
           /\ rename_map' = DictSet(rename_map, name, unique.name)
           /\ uniqueCalls' =
                 Append(uniqueCalls,
                        [ name |-> valid_name(name, postscriptNames), seen |-> seen,
                          returned |-> unique.name ])
    /\ position' = position + 1
    /\ UNCHANGED <<glyphOrder, sourceGlyphs, postscriptNames, parseVars, colorVars,
                   writerVars, defineCall, classVars, groupVars, aboveVars, abvmCall>>

\* One round of the loop for a glyph that is not in the source: continue
SkipGlyph ==
    /\ position < Len(glyphOrder)
    /\ glyphOrder[position + 1] \notin sourceGlyphs
    /\ position' = position + 1
    /\ UNCHANGED <<glyphOrder, sourceGlyphs, postscriptNames, seen, rename_map,
                   uniqueCalls, parseVars, colorVars, writerVars, defineCall,
                   classVars, groupVars, aboveVars, abvmCall>>

(***************************************************************************)
(* Specification SpecProduction: _build_production_names on a glyph order  *)
(* of MaxGlyphs glyphs, some of them not in the source, with PostScript    *)
(* names for some of them.                                                 *)
(***************************************************************************)
MaxGlyphs == 3

\* The names "a", "a*", "a.1", "b" for the glyphs
ProductionGlyphPool == { << "a" >>, << "a", "*" >>, << "a", ".", "1" >>, << "b" >> }

\* No PostScript name, "a", "a.1" or "a.1*"
PostscriptNamePool ==
    { NoName, << "a" >>, << "a", ".", "1" >>, << "a", ".", "1", "*" >> }

InitProduction ==
    /\ glyphOrder \in { o \in [1..MaxGlyphs -> ProductionGlyphPool] :
                            \A i, j \in 1..MaxGlyphs : i # j => o[i] # o[j] }
    /\ sourceGlyphs \in SUBSET Range(glyphOrder)
    /\ \E names \in [1..MaxGlyphs -> PostscriptNamePool] :
         /\ \E i \in 1..MaxGlyphs : names[i] # NoName
         /\ postscriptNames =
               SelectSeq([ i \in 1..MaxGlyphs |-> << glyphOrder[i], names[i] >> ],
                         LAMBDA e : e[2] # NoName)
    /\ position = 0
    /\ seen = <<>>
    /\ rename_map = <<>>
    /\ uniqueCalls = <<>>
    /\ font = <<>>
    /\ gdefClasses = NoGDEF
    /\ groupMarkClassesOption = FALSE
    /\ todo = {}
    /\ feaFile = EmptyFeaFile
    /\ pc = "idle"
    /\ raised = "none"
    /\ context = NoContext
    /\ ParseIdle
    /\ ColorIdle
    /\ DefineIdle
    /\ ClassIdle
    /\ GroupIdle
    /\ AboveIdle
    /\ AbvmIdle

NextProduction == NameGlyph \/ SkipGlyph
SpecProduction == InitProduction /\ [][NextProduction]_vars

(***************************************************************************)
(* Claims about parseAnchorName and NamedAnchor (under SpecParse)          *)
(***************************************************************************)
AllDigits(s) == s # <<>> /\ \A i \in 1..Len(s) : isdigit(s[i])
\* s ends in the separator followed by a run of digits
IsNumbered(s) ==
    \E i \in 1..(Len(s) - 1) : s[i] = "_" /\ AllDigits(SubSeq(s, i + 1, Len(s)))
WasParsed == parsed # NotParsed

\* C4, first form: K_N, K starting with a letter, N a run of digits, gives a
\* base anchor with key K and number N.
C4_KeyNumber ==
    \A i \in 2..(Len(anchorName) - 1) :
        LET K == SubSeq(anchorName, 1, i - 1)
            N == SubSeq(anchorName, i + 1, Len(anchorName))
        IN  (anchorName[i] = "_" /\ isalpha(K[1]) /\ AllDigits(N))
            => /\ parsed.error = "none"
               /\ ~parsed.isMark
               /\ parsed.key = K
               /\ parsed.number = int(N)

\* C4, second form: _K, K a key (it starts with a letter and carries no
\* number), gives a mark anchor with key K and no number.
C4_MarkKey ==
    LET K == Tail(anchorName)
    IN  (anchorName[1] = "_" /\ K # <<>> /\ isalpha(K[1]) /\ ~IsNumbered(K))
        => /\ parsed.error = "none"
           /\ parsed.isMark
           /\ parsed.key = K
           /\ parsed.number = None

\* C4, third form: _N alone gives a base anchor with an empty key and number N.
C4_OnlyNumber ==
    LET N == Tail(anchorName)
    IN  (anchorName[1] = "_" /\ AllDigits(N))
        => /\ parsed.error = "none"
           /\ ~parsed.isMark
           /\ parsed.key = <<>>
           /\ parsed.number = int(N)

\* C4, fourth form: trailing digits that the separator does not precede stay
\* in the key, and there is no number.
C4_DigitsInKey ==
    \A i \in 0..(Len(anchorName) - 1) :
        ( /\ AllDigits(SubSeq(anchorName, i + 1, Len(anchorName)))
          /\ i > 0 => (~isdigit(anchorName[i]) /\ anchorName[i] # "_") )
        => /\ parsed.error = "none"
           /\ parsed.number = None
           /\ parsed.key = IF anchorName[1] = "_" THEN Tail(anchorName) ELSE anchorName

\* C4: with the default prefix and separator and no lib data, parseAnchorName
\* maps K_N to (base, K, N), _K to (mark, K, no number), _N to (base, empty
\* key, N) without failing, and a name such as top1, whose digits do not
\* follow the separator, to a key that keeps the digits and no number.
C4_ParseForms ==
    (WasParsed /\ ~libData)
    => (C4_KeyNumber /\ C4_MarkKey /\ C4_OnlyNumber /\ C4_DigitsInKey)

\* t_1 was parsed: key t, number 1
C4_Witness ==
    /\ WasParsed /\ ~libData
    /\ anchorName = << "t", "_", "1" >>
    /\ parsed.key = << "t" >> /\ parsed.number = 1

\* C6 as claimed: an empty key, or a key starting with a non-alphabetic
\* character, makes the anchor ignorable, so that every descriptor that is not
\* ignorable has a non-empty key.
C6_EmptyKeyIsIgnorable ==
    (WasParsed /\ named.error = "none")
    => /\ (named.key = <<>> \/ ~isalpha(named.key[1])) => named.isIgnorable
       /\ ~named.isIgnorable => named.key # <<>>

\* C6 as the code has it: an anchor is ignorable exactly when its key is
\* non-empty and starts with a non-alphabetic character; an anchor with an
\* empty key is not ignorable (so every ignorable anchor has a non-empty key),
\* and the base-side name _3 parses to an empty key, component 3, not ignorable.
C6_IgnorableIffNonAlphaKey ==
    (WasParsed /\ named.error = "none")
    => /\ named.isIgnorable <=> (named.key # <<>> /\ ~isalpha(named.key[1]))
       /\ named.key = <<>> => ~named.isIgnorable
       /\ (anchorName = << "_", "3" >> /\ ~libData)
          => (named.key = <<>> /\ named.number = 3 /\ ~named.isIgnorable)

\* _3 was parsed to an empty key and is not ignorable
C6_Witness ==
    /\ WasParsed /\ ~libData
    /\ anchorName = << "_", "3" >>
    /\ named.error = "none" /\ named.key = <<>> /\ ~named.isIgnorable

\* C7: a NamedAnchor that was constructed has no component number or one that
\* is at least 1 (t_0 is rejected), and a mark anchor has no component number.
C7_ComponentIndex ==
    WasParsed
    => /\ named.error = "none"
          => /\ named.number = None \/ named.number >= 1
             /\ named.isMark => named.number = None
       /\ (anchorName = << "t", "_", "0" >>) => named.error # "none"

\* t_0 was rejected
C7_Witness ==
    /\ WasParsed
    /\ anchorName = << "t", "_", "0" >>
    /\ named.error = "ValueError: ligature component indexes must start from 1"

(***************************************************************************)
(* Claims about colorGraph (under SpecColor)                               *)
(***************************************************************************)
WasColored == colorGroups # NotColored
AdjVertices == DictKeys(adjacency)
Adjacent(v, w) == w \in Range(DictVal(adjacency, v))
\* the map is symmetric and every vertex it mentions is a key
WellFormedAdjacency ==
    \A v \in AdjVertices :
        \A w \in Range(DictVal(adjacency, v)) : w \in AdjVertices /\ Adjacent(w, v)

\* C2: for a symmetric adjacency map that lists every vertex as a key, the
\* groups returned by colorGraph partition the vertex set and no group holds
\* two adjacent vertices.
C2_ProperColoring ==
    (WasColored /\ WellFormedAdjacency)
    => /\ \A v \in AdjVertices :
            Cardinality({ i \in 1..Len(colorGroups) :
                            \E j \in 1..Len(colorGroups[i]) : colorGroups[i][j] = v }) = 1
       /\ \A i \in 1..Len(colorGroups) :
            /\ Range(colorGroups[i]) \subseteq AdjVertices
            /\ \A j, k \in 1..Len(colorGroups[i]) :
                 /\ (j # k) => colorGroups[i][j] # colorGroups[i][k]
                 /\ ~Adjacent(colorGroups[i][j], colorGroups[i][k])

\* a path a - b - c was coloured: two groups
C2_Witness ==
    /\ WasColored
    /\ Cardinality(AdjVertices) = 3
    /\ \E v \in AdjVertices : Len(DictVal(adjacency, v)) = 2
    /\ \E v \in AdjVertices : Len(DictVal(adjacency, v)) = 1
    /\ Len(colorGroups) = 2

\* The reference greedy colouring of the graph, from its vertex set and its
\* adjacency relation alone: RefColor[v] is the smallest colour that no
\* adjacent vertex smaller than v has.
RECURSIVE RefColor(_)
RefColor(v) ==
    LET before == { w \in AdjVertices : StrLess(w, v) /\ Adjacent(v, w) }
        used == { RefColor(w) : w \in before }
    IN  CHOOSE c \in 0..Cardinality(used) :
            c \notin used /\ \A d \in 0..(c - 1) : d \in used
RefColors == { RefColor(v) : v \in AdjVertices }
RefGroups ==
    [ c \in 1..Cardinality(RefColors) |->
        sorted({ v \in AdjVertices : RefColor(v) = c - 1 }) ]

\* C3: colorGraph returns the reference greedy colouring (vertices in
\* ascending order, each given the smallest colour no coloured neighbour has,
\* groups listed by colour), whatever the insertion order of the map and the
\* order of the neighbour collections; a graph with vertices and no edges
\* gives one group of all vertices, a complete graph on k vertices k groups.
C3_GreedyColoring ==
    (WasColored /\ WellFormedAdjacency)
    => /\ colorGroups = RefGroups
       /\ (AdjVertices # {} /\ \A v \in AdjVertices : DictVal(adjacency, v) = <<>>)
          => colorGroups = << sorted(AdjVertices) >>
       /\ (\A v, w \in AdjVertices : v # w => Adjacent(v, w))
          => Len(colorGroups) = Cardinality(AdjVertices)

\* a path was coloured whose dict lists the middle vertex first and whose
\* ends share colour 0
C3_Witness ==
    /\ WasColored
    /\ Len(adjacency) = 3
    /\ Len(adjacency[1][2]) = 2
    /\ StrLess(adjacency[3][1], adjacency[1][1])
    /\ StrLess(adjacency[1][1], adjacency[2][1])
    /\ Len(colorGroups) = 2 /\ Len(colorGroups[1]) = 2

(***************************************************************************)
(* Claims about the run of the writer (Spec)                               *)
(***************************************************************************)
FontGlyphs == { font[i] : i \in 1..Len(font) }

\* The glyphs whose anchors are collected: all of them, or with a GDEF table
\* those of its Base, Ligature and Mark classes
Included(glyph) ==
    ~gdefClasses.defined
    \/ glyph.name \in (gdefClasses.base \cup gdefClasses.ligature \cup gdefClasses.mark)

\* The classes among classNames that hold mark glyph g in the registry
ClassesHolding(g, classNames) ==
    { cn \in classNames : g \in DictKeys(DictVal(feaFile.markClasses, cn)) }
RegistryGlyphs ==
    UNION { DictKeys(feaFile.markClasses[i][2]) : i \in 1..Len(feaFile.markClasses) }
NoSharedMarkGlyph(kind, groups) ==
    \A i \in 1..Len(groups) : \A g \in RegistryGlyphs :
        Cardinality(ClassesHolding(g, ReferencedClasses(kind, groups[i]))) <= 1

\* C1: in every group of the grouped mark-to-base and mark-to-ligature
\* attachments, with options.groupMarkClasses on or off, no mark glyph is held
\* by two of the mark classes that the anchors of the group refer to.
C1_NoSharedMarkGlyph ==
    /\ NoSharedMarkGlyph("base", context.groupedMarkToBaseAttachments)
    /\ NoSharedMarkGlyph("liga", context.groupedMarkToLigaAttachments)

\* The classes are grouped, and a mark glyph is held by two classes that the
\* mark-to-base attachments refer to: they went into two groups
C1_Witness ==
    /\ pc = "written"
    /\ groupMarkClassesOption
    /\ \E g \in RegistryGlyphs :
         Cardinality(ClassesHolding(g,
             ReferencedClasses("base", context.markToBaseAttachments))) >= 2
    /\ Len(context.groupedMarkToBaseAttachments) >= 2

\* A mark anchor name that carries a component number: _K_N
NumberedMarkName(name) ==
    /\ Len(name) >= 3
    /\ name[1] = "_"
    /\ \E k \in 2..(Len(name) - 1) :
         name[k] = "_" /\ \A i \in (k + 1)..Len(name) : isdigit(name[i])
\* A mark anchor name without a key: the bare prefix
NilMarkName(name) == name = << "_" >>
RejectedName(name) == NumberedMarkName(name) \/ NilMarkName(name)
RejectedAnchorInFont ==
    \E g \in FontGlyphs :
        Included(g) /\ \E j \in 1..Len(g.anchors) : RejectedName(g.anchors[j].name)

\* C5: a font with a numbered mark anchor (_top_1) or a mark anchor without a
\* key (_) on a collected glyph gets no further than setContext, which raises
\* the ValueError of parseAnchorName; no other font raises, and the run of such
\* a font never changes the feature file: no mark class, lookup or feature is
\* added to it.
C5_RejectedNameAborts ==
    /\ [](pc # "start" =>
            /\ (pc = "raised") = RejectedAnchorInFont
            /\ pc = "raised" =>
                 /\ raised \in { "ValueError: mark anchor cannot be numbered",
                                 "ValueError: mark anchor key is nil" }
                 /\ context = NoContext)
    /\ [][RejectedAnchorInFont => feaFile' = feaFile /\ context' = context]_vars

C5_Witness ==
    /\ pc = "raised"
    /\ raised = "ValueError: mark anchor cannot be numbered"
    /\ \E g \in FontGlyphs : \E j \in 1..Len(g.anchors) :
         NumberedMarkName(g.anchors[j].name)

\* The first anchor of the glyph with the name
FirstNamed(glyph, name) ==
    glyph.anchors[Min({ j \in 1..Len(glyph.anchors) : glyph.anchors[j].name = name })]

\* C8: the list collected for a glyph holds no unnamed anchor and one entry
\* for each name, and the entry carries the coordinates of the first anchor of
\* the glyph with that name (the later duplicates are dropped).
C8_FirstAnchorKept ==
    pc = "context" =>
        \A i \in 1..Len(context.anchorLists) : \A g \in FontGlyphs :
            g.name = context.anchorLists[i][1] =>
                LET list == context.anchorLists[i][2]
                IN  /\ \A j, k \in 1..Len(list) : list[j].name = list[k].name => j = k
                    /\ \A j \in 1..Len(list) :
                         /\ list[j].name # <<>>
                         /\ list[j].x = FirstNamed(g, list[j].name).x
                         /\ list[j].y = FirstNamed(g, list[j].name).y

\* No collected base anchor has a mark anchor of its key anywhere
NoMatchingAnchors ==
    ~ \E b \in AllAnchors(context.anchorLists), m \in AllAnchors(context.anchorLists) :
          ~b.isMark /\ m.isMark /\ m.key = b.key

\* C9: once the anchors are collected and no base anchor has a matching mark
\* anchor, shouldContinue answers False: the run is skipped with no mark class,
\* lookup or feature made, the feature file unchanged and no exception.
C9_NoPairsSkips ==
    /\ [](pc \notin { "start", "raised", "context" } /\ NoMatchingAnchors =>
            /\ pc = "skipped"
            /\ raised = "none"
            /\ context.markClasses = <<>>
            /\ context.newClassDefs = <<>>
            /\ context.features = <<>>)
    /\ [][pc # "start" /\ NoMatchingAnchors =>
            feaFile' = feaFile /\ raised' = raised]_vars
    /\ [][pc = "context" /\ NoMatchingAnchors => pc' = "skipped"]_vars

\* Skipped with work to do: the font has mark anchors only
C9_Witness ==
    /\ pc = "skipped"
    /\ todo # {}
    /\ NoMatchingAnchors
    /\ \E m \in AllAnchors(context.anchorLists) : m.isMark

(***************************************************************************)
(* Claims about _defineMarkClass (SpecDefine)                              *)
(***************************************************************************)
\* A coordinate in half units rounded to font units: the integer n with
\* n - 1/2 <= h/2 < n + 1/2
Rounded(h) == CHOOSE n \in 0..(h + 1) : 2 * n <= h + 1 /\ h + 1 < 2 * n + 2

\* The last call asked for a class that holds the glyph at other coordinates
DefineConflict ==
    /\ defineCall # NoCall
    /\ defineCall.className \in DictKeys(defineCall.before)
    /\ defineCall.glyphName \in DictKeys(DictVal(defineCall.before, defineCall.className))
    /\ DictVal(DictVal(defineCall.before, defineCall.className), defineCall.glyphName)
         # << Rounded(defineCall.x), Rounded(defineCall.y) >>

\* C10: when the class asked for holds the glyph at other rounded coordinates,
\* the definition goes into a new class whose name is none of the registry's,
\* the new class holds the glyph at the rounded coordinates and nothing else,
\* and every class the registry held is as it was.
C10_ConflictSplits ==
    DefineConflict =>
        LET new == defineCall.mcdef.markClass
        IN  /\ defineCall.mcdef # NoDef
            /\ new \notin DictKeys(defineCall.before)
            /\ new \in DictKeys(feaFile.markClasses)
            /\ DictVal(feaFile.markClasses, new)
                 = << << defineCall.glyphName,
                         << Rounded(defineCall.x), Rounded(defineCall.y) >> >> >>
            /\ \A cn \in DictKeys(defineCall.before) :
                 DictVal(feaFile.markClasses, cn) = DictVal(defineCall.before, cn)

\* A conflict in MC_top while MC_top_1 exists: the new class is MC_top_2
C10_Witness ==
    /\ DefineConflict
    /\ defineCall.className = MC_top
    /\ (MC_top \o << "_", "1" >>) \in DictKeys(defineCall.before)
    /\ defineCall.mcdef.markClass = MC_top \o << "_", "2" >>

(***************************************************************************)
(* Claims about _makeMarkClassDefinitions (under SpecClasses)              *)
(***************************************************************************)
\* The class names that are named after a mark anchor name of the groups
CandidateNames == { makeFeaClassName(markClassPrefix \o name) : name \in DictKeys(markGlyphSets) }

\* The first call started from a document without mark classes
StartedEmpty == classRuns # <<>> /\ classRuns[1].before = <<>>

\* C11: mark-class building is idempotent: a call of
\* _makeMarkClassDefinitions for the same glyph set on the registry left by
\* a first call that started from a document without mark classes returns
\* no definition and leaves the registry (class names and the glyphs and
\* coordinates of each class) as it was, and the registry holds no split
\* variant, that is, no class besides those named after the anchor names.
C11_Idempotent ==
    StartedEmpty =>
        /\ DictKeys(classRuns[1].after) \subseteq CandidateNames
        /\ \A i \in 2..Len(classRuns) :
              /\ classRuns[i].newDefs = <<>>
              /\ classRuns[i].after = classRuns[i].before
              /\ DictKeys(classRuns[i].after) \subseteq CandidateNames

\* The class named after the key of a mark anchor name
CandidateClass(name) == makeFeaClassName(markClassPrefix \o name)

\* Class cls of registry holds glyph g at the rounded coordinates of anchor a
HoldsAt(registry, cls, g, a) ==
    /\ cls \in DictKeys(registry)
    /\ g \in DictKeys(DictVal(registry, cls))
    /\ DictVal(DictVal(registry, cls), g) = << otRound(a.x), otRound(a.y) >>

\* Definition d was made for glyph g under the key of mark anchor name:
\* it is in the class named after the key or in a variant of that class
DefinedFor(d, name, g) ==
    /\ d.glyph = g
    /\ \/ d.markClass = CandidateClass(name)
       \/ startswith(d.markClass, CandidateClass(name) \o << "_" >>)

\* C12: for every glyph of every mark anchor name, when the class named
\* after the key already holds the glyph at identical coordinates before
\* the call, the call creates no definition for the glyph under that key,
\* whichever glyphs of the same key come before it.
C12_CandidateByKey ==
    \A i \in 1..Len(classRuns) :
      \A k \in 1..Len(markGlyphSets) :
        \A n \in 1..Len(markGlyphSets[k][2]) :
          LET name == markGlyphSets[k][1]
              g == markGlyphSets[k][2][n][1]
              a == markGlyphSets[k][2][n][2]
          IN  HoldsAt(classRuns[i].before, CandidateClass(name), g, a)
              => \A j \in 1..Len(classRuns[i].newDefs) :
                    ~DefinedFor(classRuns[i].newDefs[j], name, g)

\* The classes of context.markClasses after call i
ContextClasses(i) ==
    { DictVal(classRuns[i].markClasses, k) : k \in DictKeys(classRuns[i].markClasses) }

MarkKeys == { markGlyphSets[k][2][1][2].key : k \in 1..Len(markGlyphSets) }
LastOfKey(key) ==
    LET k == CHOOSE k \in 1..Len(markGlyphSets) : markGlyphSets[k][2][1][2].key = key
    IN  markGlyphSets[k][2][Len(markGlyphSets[k][2])]

IsClassOfKey(cls, key) ==
    LET c == CandidateClass(markAnchorName(key))
    IN  \/ cls = c
        \/ /\ startswith(cls, c \o << "_" >>)
           /\ Len(cls) > Len(c) + 1
           /\ AllDigits(SubSeq(cls, Len(c) + 2, Len(cls)))

\* The priority of a group: 2 when it holds the mark class of _bottom, 1
\* when it holds that of _top and not that of _bottom, 0 otherwise
KeyPriority(group) ==
    IF \E n \in 1..Len(group) : IsClassOfKey(group[n], N_bottom) THEN 2
    ELSE IF \E n \in 1..Len(group) : IsClassOfKey(group[n], N_top) THEN 1
    ELSE 0

\* C14: with options.groupMarkClasses the members of each colour group are
\* sorted, a group that holds the mark class of _top or _bottom comes after
\* every group that holds neither, and groups of equal priority are in the
\* lexicographic order of their member lists.
C14_PrioritisedLast ==
    classGroups.done =>
        LET groups == classGroups.groups
        IN  /\ \A n \in 1..Len(groups) :
                  \A i, j \in 1..Len(groups[n]) :
                      i < j => StrLess(groups[n][i], groups[n][j])
            /\ \A m, n \in 1..Len(groups) :
                  (KeyPriority(groups[m]) > 0 /\ KeyPriority(groups[n]) = 0) => n < m
            /\ \A m, n \in 1..Len(groups) :
                  (m < n /\ KeyPriority(groups[m]) = KeyPriority(groups[n]))
                      => ListLess(groups[m], groups[n])

NarrowedScripts ==
    IF feaFile.scripts # {} THEN scriptsUsingAbvm \cap feaFile.scripts ELSE scriptsUsingAbvm

\* Some code point of the character map belongs to one of these scripts
AbvmCodePoint ==
    \E i \in 1..Len(font) :
        /\ font[i].unicode # NoUnicode
        /\ unicodeScriptExtensions(font[i].unicode) \cap NarrowedScripts # {}

\* The names of the glyph set
GlyphSetNames == { font[i].name : i \in 1..Len(font) }

\* C18: every glyph of the glyph set is in abvmGlyphs or in notAbvmGlyphs
\* (or in both); when no code point of the character map belongs to a script
\* that uses abvm, of those the feature file declares if it declares any,
\* abvmGlyphs is empty and notAbvmGlyphs is the whole glyph set.
C18_EveryGlyphBucketed ==
    abvmCall.done =>
        /\ GlyphSetNames \subseteq abvmCall.abvmGlyphs \cup abvmCall.notAbvmGlyphs
        /\ ~AbvmCodePoint =>
              abvmCall.abvmGlyphs = {} /\ abvmCall.notAbvmGlyphs = GlyphSetNames

\* A call that puts a glyph into both sets and reaches a glyph without code
\* point through a substitution
C18_Witness ==
    /\ abvmCall.done
    /\ abvmCall.abvmGlyphs \cap abvmCall.notAbvmGlyphs # {}
    /\ \E i \in 1..Len(font) :
          font[i].unicode = NoUnicode /\ font[i].name \in abvmCall.abvmGlyphs

(***************************************************************************)
(* The lookups of the features, told apart by their names.                 *)
(***************************************************************************)
\* The name of the lookup of a statement of a feature block, which is a
\* lookup block or a reference to one
LookupOf(s) == IF "lookup" \in DOMAIN s THEN s.lookup ELSE s.name
IsReference(s) == DOMAIN s = { "lookup" }
LookupNames(statements) == [ i \in 1..Len(statements) |-> LookupOf(statements[i]) ]

HasPrefix(s, p) == Len(s) >= Len(p) /\ SubSeq(s, 1, Len(p)) = p
HasSuffix(s, p) == Len(s) >= Len(p) /\ SubSeq(s, Len(s) - Len(p) + 1, Len(s)) = p

LookupKind(name) ==
    IF HasPrefix(name, mark2base) THEN "base"
    ELSE IF HasPrefix(name, mark2liga) THEN "liga"
    ELSE IF HasPrefix(name, mark2mark_) THEN "mark"
    ELSE IF HasPrefix(name, ContextualMarkToMark \o Dispatch_) THEN "mkmk dispatch"
    ELSE IF HasPrefix(name, ContextualMarkToMark) THEN "mkmk standalone"
    ELSE IF HasPrefix(name, ContextualMark \o Dispatch_) THEN "dispatch"
    ELSE IF HasPrefix(name, ContextualMark) THEN "standalone"
    ELSE "other"

\* The place of a kind in a feature block
KindRank(kind) ==
    CASE kind = "base" -> 1
      [] kind = "liga" -> 2
      [] kind = "dispatch" -> 3
      [] kind = "mark" -> 1
      [] kind = "mkmk dispatch" -> 2
      [] OTHER -> 0

FeatureOfKind(kind) ==
    IF kind \in { "mark", "mkmk dispatch", "mkmk standalone" } THEN "mkmk" ELSE "mark"

\* The number a lookup was given when it was constructed: the lookups
\* built so far of its kind
NumberOf(name) ==
    IF \E n \in 0..9 : HasSuffix(name, << "_" >> \o str(n))
    THEN CHOOSE n \in 0..9 : HasSuffix(name, << "_" >> \o str(n))
    ELSE 0

\* Lookup a was constructed before lookup b of the same kind: the
\* mark-to-mark lookups are constructed in the order of the anchor keys,
\* the others are numbered
ConstructedBefore(a, b) ==
    IF LookupKind(a) = "mark" THEN StrLess(a, b) ELSE NumberOf(a) < NumberOf(b)

InConstructionOrder(names) ==
    \A i, j \in 1..Len(names) :
        (i < j /\ LookupKind(names[i]) = LookupKind(names[j]))
            => ConstructedBefore(names[i], names[j])

InKindOrder(names) ==
    \A i, j \in 1..Len(names) :
        i < j => KindRank(LookupKind(names[i])) <= KindRank(LookupKind(names[j]))

CountKind(names, kind) ==
    Cardinality({ i \in 1..Len(names) : LookupKind(names[i]) = kind })

FeatureOf(tag) ==
    IF \E i \in 1..Len(context.features) : context.features[i].tag = tag
    THEN context.features[CHOOSE i \in 1..Len(context.features) :
                              context.features[i].tag = tag]
    ELSE NoFeature

\* C15: when the features are written, the statements of the mark feature
\* are the mark-to-base lookups, then the mark-to-ligature lookups, then the
\* contextual dispatch lookups; those of the mkmk feature are the
\* mark-to-mark lookups, then the contextual dispatch lookups; in the flat
\* list of lookups no lookup of mkmk comes before a lookup of mark; and in
\* each of the three lists the lookups of one kind are in the order of their
\* construction.
C15_LookupOrder ==
    pc = "written" =>
        /\ InKindOrder(LookupNames(FeatureOf("mark").statements))
        /\ InConstructionOrder(LookupNames(FeatureOf("mark").statements))
        /\ InKindOrder(LookupNames(FeatureOf("mkmk").statements))
        /\ InConstructionOrder(LookupNames(FeatureOf("mkmk").statements))
        /\ \A i, j \in 1..Len(context.lookups) :
               (i < j /\ FeatureOfKind(LookupKind(context.lookups[i].name)) = "mkmk")
                   => FeatureOfKind(LookupKind(context.lookups[j].name)) = "mkmk"
        /\ InConstructionOrder(LookupNames(context.lookups))

\* A mark feature of a mark-to-base lookup, a mark-to-ligature lookup and two
\* dispatch lookups, with a mkmk feature of a mark-to-mark lookup and two
\* dispatch lookups
C15_Witness ==
    /\ pc = "written"
    /\ CountKind(LookupNames(FeatureOf("mark").statements), "base") >= 1
    /\ CountKind(LookupNames(FeatureOf("mark").statements), "liga") >= 1
    /\ CountKind(LookupNames(FeatureOf("mark").statements), "dispatch") >= 2
    /\ CountKind(LookupNames(FeatureOf("mkmk").statements), "mark") >= 1
    /\ CountKind(LookupNames(FeatureOf("mkmk").statements), "mkmk dispatch") >= 2
    /\ CountKind(LookupNames(context.lookups), "standalone") >= 2

\* The contextual anchors of a feature
ContextualAnchorsOf(tag) ==
    IF tag = "mark"
    THEN context.contextualMarkToBaseAnchors \o context.contextualMarkToLigaAnchors
    ELSE context.contextualMarkToMarkAnchors

\* The lookups of the flat list made for a feature
FlatLookupsOf(tag) ==
    SelectSeq(context.lookups, LAMBDA l : FeatureOfKind(LookupKind(l.name)) = tag)
FlatNames == { context.lookups[i].name : i \in 1..Len(context.lookups) }

\* The rules of a dispatch lookup
RulesOf(lookup) ==
    SelectSeq(lookup.statements, LAMBDA r : "invocations" \in DOMAIN r)

OnlyReferences(tag) ==
    /\ \A i \in 1..Len(FeatureOf(tag).statements) :
          /\ IsReference(FeatureOf(tag).statements[i])
          /\ FeatureOf(tag).statements[i].lookup \in FlatNames
    /\ \A i \in 1..Len(FlatLookupsOf(tag)) :
          \A k \in 1..Len(RulesOf(FlatLookupsOf(tag)[i])) :
              RulesOf(FlatLookupsOf(tag)[i])[k].lookup \in FlatNames

OnlyInline(tag) ==
    /\ \A i \in 1..Len(FeatureOf(tag).statements) :
          /\ ~IsReference(FeatureOf(tag).statements[i])
          /\ "statements" \in DOMAIN FeatureOf(tag).statements[i]
    /\ FlatLookupsOf(tag) = <<>>

\* C16: when the features are written, a mark or mkmk feature that has
\* contextual anchors, hence a dispatch lookup, holds only references to
\* lookups of the flat list, which also holds the lookup of every dispatch
\* rule; a mark or mkmk feature without contextual anchors holds only inline
\* lookups and has no lookup in the flat list.
C16_ReferencesOrInline ==
    pc = "written" =>
        \A tag \in { "mark", "mkmk" } :
            IF ContextualAnchorsOf(tag) # <<>>
            THEN /\ CountKind(LookupNames(FeatureOf(tag).statements),
                              IF tag = "mark" THEN "dispatch" ELSE "mkmk dispatch") >= 1
                 /\ OnlyReferences(tag)
            ELSE OnlyInline(tag)

\* A mark feature of references to a mark-to-base lookup and a dispatch
\* lookup, with an inline mkmk feature
C16_Witness ==
    /\ pc = "written"
    /\ CountKind(LookupNames(FeatureOf("mark").statements), "base") >= 1
    /\ CountKind(LookupNames(FeatureOf("mark").statements), "dispatch") >= 1
    /\ CountKind(LookupNames(context.lookups), "standalone") >= 1
    /\ ContextualAnchorsOf("mkmk") = <<>>
    /\ FeatureOf("mkmk") # NoFeature

\* The lookups that hold the positioning statements of a feature: its
\* inline lookups, or the lookups of the flat list made for it
PosLookupsOf(tag) ==
    SelectSeq(FeatureOf(tag).statements, LAMBDA l : ~IsReference(l))
    \o (IF tag \in { "mark", "mkmk" } THEN FlatLookupsOf(tag) ELSE <<>>)

\* The glyphs the statements of a lookup position marks on: the glyph of
\* an attachment, the glyphs of a dispatch rule
PosGlyphs(lookup) ==
    UNION { IF "glyphs" \in DOMAIN lookup.statements[i]
            THEN { lookup.statements[i].glyphs[k] :
                     k \in 1..Len(lookup.statements[i].glyphs) }
            ELSE IF "marks" \in DOMAIN lookup.statements[i]
            THEN { lookup.statements[i].name }
            ELSE {} : i \in 1..Len(lookup.statements) }
PosGlyphsOf(tag) ==
    UNION { PosGlyphs(PosLookupsOf(tag)[i]) : i \in 1..Len(PosLookupsOf(tag)) }

\* The anchors of the attachments of the lookups of abvm or blwm, whose
\* names are the tag, "_", and the name of the lookup in mark or mkmk
AnchorsOfLookup(lookup) ==
    UNION { PosAnchors(LookupKind(SubSeq(lookup.name, 6, Len(lookup.name))),
                       lookup.statements[i]) : i \in 1..Len(lookup.statements) }
PosAnchorsOf(tag) ==
    UNION { AnchorsOfLookup(PosLookupsOf(tag)[i]) : i \in 1..Len(PosLookupsOf(tag)) }

\* No feature block without a lookup
BlocksHaveLookups ==
    \A i \in 1..Len(context.features) : context.features[i].statements # <<>>

\* The statements of mark and mkmk are for glyphs of notAbvmGlyphs
MarkForNotAbvmGlyphs ==
    PosGlyphsOf("mark") \cup PosGlyphsOf("mkmk")
        \subseteq getAbvmGlyphs(font, feaFile).notAbvmGlyphs

\* The statements of abvm and blwm are for glyphs of abvmGlyphs, those of
\* abvm with anchors above only, those of blwm with anchors below only
AbvmForAbvmGlyphs ==
    /\ PosGlyphsOf("abvm") \cup PosGlyphsOf("blwm")
           \subseteq getAbvmGlyphs(font, feaFile).abvmGlyphs
    /\ \A a \in PosAnchorsOf("abvm") : isAboveMark(a)
    /\ \A a \in PosAnchorsOf("blwm") : isBelowMark(a)

\* C19: when the features are written, every feature block has a lookup,
\* every positioning statement of mark and mkmk, contextual or not, is for
\* a glyph of the not-abvm set, and every positioning statement of abvm and
\* blwm is for a glyph of the abvm set, abvm with anchors above only and
\* blwm with anchors below only.
C19_FeaturesByGlyphSet ==
    pc = "written" =>
        /\ BlocksHaveLookups
        /\ MarkForNotAbvmGlyphs
        /\ AbvmForAbvmGlyphs

\* What a run of _makeMarkClassDefinitions gives when it runs alone on the
\* feature file as it was before the first run
RunAlone == makeMarkClassDefinitions(markGlyphSets, classRuns[1].before)

\* C20: the runs of the mark class building step of compilations that share
\* one feature file, none of which has inserted anything yet, leave the
\* registry of mark classes of the file as it was, and each run returns the
\* definitions and the mark classes it returns when it runs alone.
C20_GenerationLeavesRegistry ==
    \A i \in 1..Len(classRuns) :
        /\ classRuns[i].after = classRuns[i].before
        /\ classRuns[i].newDefs = RunAlone.newDefs
        /\ classRuns[i].markClasses = RunAlone.allMarkClasses

(***************************************************************************)
(* The anchor lists before and after _pruneUnusedAnchors.                  *)
(***************************************************************************)
\* _write has run to its end
WriteReturned == pc \in { "written", "nothing" }

\* The anchor lists setContext collected
CollectedLists == getAnchorLists(font, gdefClasses).value

\* The anchors of a glyph in the lists of the context, as they were before
\* _setBaseAnchorMarkClasses gave them their mark class
Unwired(anchors) == [ k \in 1..Len(anchors) |-> [ anchors[k] EXCEPT !.markClass = NoClass ] ]
AnchorsLeft(glyphName) ==
    IF \E i \in 1..Len(context.anchorLists) : context.anchorLists[i][1] = glyphName
    THEN Unwired(context.anchorLists[CHOOSE i \in 1..Len(context.anchorLists) :
                                         context.anchorLists[i][1] = glyphName][2])
    ELSE <<>>

\* The anchor has an empty key, or its name is the base side or the mark
\* side of an anchor pair
InPairOrKeyless(a) ==
    \/ a.key = <<>>
    \/ \E q \in context.anchorPairs : a.name = q[1] \/ a.name = q[2]

\* C21: once _write has pruned the anchor lists, every anchor left has an
\* empty key or a name that is one side of an anchor pair, no glyph is left
\* with an empty list, and the anchors left of each glyph are exactly those
\* of its collected anchors that met this condition, in their order.
C21_PrunedLists ==
    WriteReturned =>
        /\ \A i \in 1..Len(context.anchorLists) :
              /\ context.anchorLists[i][2] # <<>>
              /\ \A k \in 1..Len(context.anchorLists[i][2]) :
                    InPairOrKeyless(context.anchorLists[i][2][k])
        /\ \A i \in 1..Len(CollectedLists) :
              AnchorsLeft(CollectedLists[i][1])
                  = SelectSeq(CollectedLists[i][2], InPairOrKeyless)

\* A glyph lost an anchor and kept another, and an anchor with an empty key
\* is left
C21_Witness ==
    /\ WriteReturned
    /\ \E i \in 1..Len(CollectedLists) :
          /\ AnchorsLeft(CollectedLists[i][1]) # <<>>
          /\ Len(AnchorsLeft(CollectedLists[i][1])) < Len(CollectedLists[i][2])
    /\ \E i \in 1..Len(context.anchorLists) :
          \E k \in 1..Len(context.anchorLists[i][2]) :
              context.anchorLists[i][2][k].key = <<>>

(***************************************************************************)
(* The attachments made from the anchor lists of the context.              *)
(***************************************************************************)
\* _write has made the attachments: it returned, or _makeFeatures raised
WriteEnded == WriteReturned \/ (pc = "raised" /\ context # NoContext)

\* An anchor a mark-to-base attachment may hold
BaseAnchor(a) ==
    ~a.isMark /\ ~a.isContextual /\ a.number = None /\ a.markClass # NoClass

\* The glyphs of the lists that get a mark-to-base attachment
BaseGlyphs ==
    SelectSeq(context.anchorLists,
        LAMBDA e : /\ e[1] \notin context.markGlyphNames
                   /\ gdefClasses.defined => e[1] \in gdefClasses.base
                   /\ \E k \in 1..Len(e[2]) : BaseAnchor(e[2][k]))

\* C22: the mark-to-base attachments are, in the order of the glyphs, one
\* attachment for each glyph that is no mark glyph, is in the GDEF base class
\* when there is one, and has an anchor that is no mark anchor, not
\* contextual, not numbered and has a mark class; the attachment holds
\* exactly these anchors of the glyph.
C22_MarkToBase ==
    WriteEnded =>
        /\ Len(context.markToBaseAttachments) = Len(BaseGlyphs)
        /\ \A i \in 1..Len(BaseGlyphs) :
              /\ context.markToBaseAttachments[i].name = BaseGlyphs[i][1]
              /\ context.markToBaseAttachments[i].marks
                    = SelectSeq(BaseGlyphs[i][2], BaseAnchor)

\* The base glyph has an attachment that leaves out a contextual anchor
\* with a mark class, and a mark glyph with an anchor top has none
C22_Witness ==
    /\ WriteEnded
    /\ \E i \in 1..Len(BaseGlyphs) :
          \E k \in 1..Len(BaseGlyphs[i][2]) :
              /\ BaseGlyphs[i][2][k].isContextual
              /\ BaseGlyphs[i][2][k].markClass # NoClass
    /\ \E i \in 1..Len(context.anchorLists) :
          /\ context.anchorLists[i][1] \in context.markGlyphNames
          /\ \E k \in 1..Len(context.anchorLists[i][2]) :
                BaseAnchor(context.anchorLists[i][2][k])

\* The numbered, non-contextual anchors of a glyph: the ligature anchors
LigaAnchors(anchors) ==
    SelectSeq(anchors, LAMBDA a : a.number # None /\ ~a.isContextual)

\* The ligature anchors with the number k that have a mark class
ComponentOf(anchors, k) ==
    SelectSeq(LigaAnchors(anchors), LAMBDA a : a.number = k /\ a.markClass # NoClass)

\* The largest component number of the ligature anchors
MaxComponent(anchors) ==
    Max({ LigaAnchors(anchors)[k].number : k \in 1..Len(LigaAnchors(anchors)) })

\* The anchors of the glyph in the lists of the context
ListOf(glyphName) == DictVal(context.anchorLists, glyphName)

\* C23: every mark-to-ligature attachment has as many components as the
\* largest number of the numbered, non-contextual anchors of its glyph, and
\* its component k holds exactly the anchors numbered k with a mark class,
\* whatever the order of the anchors of the glyph.
C23_LigaComponents ==
    WriteEnded =>
        \A i \in 1..Len(context.markToLigaAttachments) :
            LET pos == context.markToLigaAttachments[i]
            IN  /\ Len(pos.marks) = MaxComponent(ListOf(pos.name))
                /\ \A k \in 1..Len(pos.marks) :
                      pos.marks[k] = ComponentOf(ListOf(pos.name), k)

\* An anchor a mark-to-mark attachment may hold
MkmkAnchor(a) ==
    ~a.isMark /\ ~a.isContextual /\ a.number = None /\ a.markClass # NoClass

\* The attachments in the bucket of a key
Bucket(key) ==
    IF key \in DictKeys(context.markToMarkAttachments)
    THEN DictVal(context.markToMarkAttachments, key) ELSE <<>>

\* How often an attachment is in the buckets
CountInBuckets(pos) ==
    LET keys == DictKeys(context.markToMarkAttachments)
        at == UNION { { << key, j >> :
                          j \in { n \in 1..Len(Bucket(key)) : Bucket(key)[n] = pos } } :
                      key \in keys }
    IN  Cardinality(at)

\* For every mark glyph and every anchor of it that is no mark anchor, not
\* contextual, not numbered and has a mark class, one attachment with this
\* anchor alone, in the bucket of the key of the anchor and nowhere else
OneAttachmentPerAnchor ==
    \A i \in 1..Len(context.anchorLists) :
        context.anchorLists[i][1] \in context.markGlyphNames =>
            \A k \in 1..Len(context.anchorLists[i][2]) :
                LET a == context.anchorLists[i][2][k]
                    pos == [ name |-> context.anchorLists[i][1], marks |-> << a >> ]
                IN  IF MkmkAnchor(a)
                    THEN /\ CountInBuckets(pos) = 1
                         /\ \E j \in 1..Len(Bucket(a.key)) : Bucket(a.key)[j] = pos
                    ELSE CountInBuckets(pos) = 0

\* The buckets hold nothing else
OnlyMkmkAnchors ==
    \A key \in DictKeys(context.markToMarkAttachments) :
        \A j \in 1..Len(Bucket(key)) :
            /\ Bucket(key)[j].name \in context.markGlyphNames
            /\ Len(Bucket(key)[j].marks) = 1
            /\ Bucket(key)[j].marks[1].key = key
            /\ MkmkAnchor(Bucket(key)[j].marks[1])
            /\ \E k \in 1..Len(ListOf(Bucket(key)[j].name)) :
                  ListOf(Bucket(key)[j].name)[k] = Bucket(key)[j].marks[1]

\* The glyphs a feature is made for
IncludeOf(tag) ==
    IF tag \in { "mark", "mkmk" } THEN getAbvmGlyphs(font, feaFile).notAbvmGlyphs
    ELSE getAbvmGlyphs(font, feaFile).abvmGlyphs

\* The mark-to-mark lookups of a feature, and the key of one
MkmkLookupsOf(tag) ==
    SelectSeq(PosLookupsOf(tag), LAMBDA l : "markFilteringSet" \in DOMAIN l)
MkmkKey(tag, lookup) ==
    IF tag \in { "mark", "mkmk" }
    THEN SubSeq(lookup.name, Len(mark2mark_) + 1, Len(lookup.name))
    ELSE SubSeq(lookup.name, 5 + Len(mark2mark_) + 1, Len(lookup.name))

\* The glyphs of the mark class of a key
ClassGlyphs(key) ==
    LET glyphs == DictVal(feaFile.markClasses, DictVal(context.markClasses, key))
    IN  { glyphs[i][1] : i \in 1..Len(glyphs) }

AttachingGlyphs(lookup) ==
    { lookup.statements[i].name : i \in 1..Len(lookup.statements) }

\* The filtering set of a mark-to-mark lookup is made of the glyphs of the
\* mark class of its key that the feature is made for and of the glyphs of
\* its attachments
FilterOfClassAndAttaching ==
    \A tag \in AllFeatures :
        \A i \in 1..Len(MkmkLookupsOf(tag)) :
            LET lookup == MkmkLookupsOf(tag)[i]
            IN  Range(lookup.markFilteringSet)
                    = (ClassGlyphs(MkmkKey(tag, lookup)) \cap IncludeOf(tag))
                          \cup AttachingGlyphs(lookup)

\* C24: when the features are written, the mark-to-mark attachments are one
\* single-anchor attachment, in the bucket of the key, for every anchor of a
\* mark glyph that is no mark anchor, not contextual, not numbered and has
\* a mark class, and nothing else (a numbered anchor of a mark glyph is
\* left out and nothing is raised for it); the filtering set of the lookup
\* of a key is made of the glyphs of the class of the key that the feature
\* is made for and of the attaching glyphs of the lookup.
C24_MarkToMark ==
    WriteEnded =>
        /\ OneAttachmentPerAnchor
        /\ OnlyMkmkAnchors
        /\ pc = "written" => FilterOfClassAndAttaching

\* A mark glyph has a numbered anchor with a mark class, the class of a
\* mark-to-mark lookup has a glyph the feature is not made for, and the
\* glyph of its attachment is not in the class
C24_Witness ==
    /\ pc = "written"
    /\ \E i \in 1..Len(context.anchorLists) :
          /\ context.anchorLists[i][1] \in context.markGlyphNames
          /\ \E k \in 1..Len(context.anchorLists[i][2]) :
                /\ context.anchorLists[i][2][k].number # None
                /\ context.anchorLists[i][2][k].markClass # NoClass
    /\ \E i \in 1..Len(MkmkLookupsOf("mkmk")) :
          LET lookup == MkmkLookupsOf("mkmk")[i]
          IN  /\ ClassGlyphs(MkmkKey("mkmk", lookup)) \ IncludeOf("mkmk") # {}
              /\ AttachingGlyphs(lookup) \ ClassGlyphs(MkmkKey("mkmk", lookup)) # {}

(***************************************************************************)
(* The contextual lookups of the features.                                 *)
(***************************************************************************)
\* The dispatch lookups of a feature
DispatchLookupsOf(tag) ==
    SelectSeq(FlatLookupsOf(tag),
              LAMBDA l : LookupKind(l.name) \in { "dispatch", "mkmk dispatch" })

\* No rule of the lookup comes after a rule of a shorter context
LongestFirst(lookup) ==
    \A i, j \in 1..Len(RulesOf(lookup)) :
        i < j => Len(RulesOf(lookup)[i].context) >= Len(RulesOf(lookup)[j].context)

\* C25: when the features are written, in every dispatch lookup of mark and
\* mkmk no rule of a longer full context comes after a rule of a shorter
\* full context.
C25_LongestContextFirst ==
    pc = "written" =>
        \A tag \in { "mark", "mkmk" } :
            \A i \in 1..Len(DispatchLookupsOf(tag)) :
                LongestFirst(DispatchLookupsOf(tag)[i])

\* The contextual anchors of a kind: a dict context -> (glyph, anchor) pairs
ContextualDict(kind) ==
    IF kind = "base" THEN context.contextualMarkToBaseAnchors
    ELSE IF kind = "liga" THEN context.contextualMarkToLigaAnchors
    ELSE context.contextualMarkToMarkAnchors

\* The groups of a kind: the contexts with the keys of their anchors
GroupsOfKind(kind) ==
    UNION { { << kind, ContextualDict(kind)[i][1], ContextualDict(kind)[i][2][k][2].key >> :
                k \in 1..Len(ContextualDict(kind)[i][2]) } :
            i \in 1..Len(ContextualDict(kind)) }
GroupsOf(tag) ==
    IF tag = "mark" THEN GroupsOfKind("base") \cup GroupsOfKind("liga")
    ELSE GroupsOfKind("mark")

\* The plain positioning statement of a (glyph, anchor) pair: a ligature has
\* the anchor at its component and nothing at the others
PlainStatement(kind, q) ==
    [ name |-> q[1],
      marks |-> IF kind = "liga"
                THEN [ c \in 1..Max(NumbersOf(q[1], context.anchorLists)) |->
                         IF c = q[2].number THEN << q[2] >> ELSE <<>> ]
                ELSE << q[2] >> ]

\* The plain positioning statements of the pairs of a group
GroupStatements(g) ==
    LET pairs == SelectSeq(DictVal(ContextualDict(g[1]), g[2]), LAMBDA q : q[2].key = g[3])
    IN  [ i \in 1..Len(pairs) |-> PlainStatement(g[1], pairs[i]) ]

\* The standalone lookups of a feature, and the rules of its dispatch
\* lookups: rule k of dispatch lookup i is << i, k >>
StandaloneLookupsOf(tag) ==
    SelectSeq(FlatLookupsOf(tag),
              LAMBDA l : LookupKind(l.name) \in { "standalone", "mkmk standalone" })
AllRules(tag) ==
    UNION { { << i, k >> : k \in 1..Len(RulesOf(DispatchLookupsOf(tag)[i])) } :
            i \in 1..Len(DispatchLookupsOf(tag)) }
RuleAt(tag, p) == RulesOf(DispatchLookupsOf(tag)[p[1]])[p[2]]

\* The rule is for the group: it has the context of the group and names a
\* standalone lookup that holds the statements of the group
RuleForGroup(tag, p, g) ==
    /\ RuleAt(tag, p).context = g[2]
    /\ \E i \in 1..Len(StandaloneLookupsOf(tag)) :
          /\ StandaloneLookupsOf(tag)[i].name = RuleAt(tag, p).lookup
          /\ StandaloneLookupsOf(tag)[i].statements = GroupStatements(g)

\* One standalone lookup and one rule for every group, and no others
OnePerGroup(tag) ==
    /\ \A g \in GroupsOf(tag) :
          Cardinality({ p \in AllRules(tag) : RuleForGroup(tag, p, g) }) = 1
    /\ Cardinality(AllRules(tag)) = Cardinality(GroupsOf(tag))
    /\ Len(StandaloneLookupsOf(tag)) = Cardinality(GroupsOf(tag))
    /\ \A i \in 1..Len(StandaloneLookupsOf(tag)) :
          Cardinality({ p \in AllRules(tag) :
                          RuleAt(tag, p).lookup = StandaloneLookupsOf(tag)[i].name }) = 1

\* Two rules are in one dispatch lookup exactly when their contexts have the
\* same part before ";"
SharedByBefore(tag) ==
    \A p, q \in AllRules(tag) :
        p[1] = q[1] <=> BeforeOf(RuleAt(tag, p).context) = BeforeOf(RuleAt(tag, q).context)

\* The names of the lookups of a feature are pairwise distinct
DistinctNames(tag) ==
    \A i, j \in 1..Len(FlatLookupsOf(tag)) :
        i # j => FlatLookupsOf(tag)[i].name # FlatLookupsOf(tag)[j].name

\* The context has a "*" or a "&" for the mark class
HasWildcard(fullcontext) ==
    count(AfterOf(fullcontext), "*") + count(AfterOf(fullcontext), "&") > 0

PlacesOf(grouped) ==
    UNION { { << g, j >> : j \in 1..Len(grouped[g]) } : g \in 1..Len(grouped) }

\* The anchors of an attachment: of all components, for a ligature
AnchorsOfPos(kind, pos) ==
    IF kind = "liga" THEN UNION { Range(pos.marks[c]) : c \in 1..Len(pos.marks) }
    ELSE Range(pos.marks)

\* In how many places of the grouped attachments is the anchor of the glyph
TimesGrouped(kind, grouped, glyphName, a) ==
    Cardinality({ p \in PlacesOf(grouped) :
                    /\ grouped[p[1]][p[2]].name = glyphName
                    /\ a \in AnchorsOfPos(kind, grouped[p[1]][p[2]]) })

\* Every anchor of every attachment is in one place of the groups
NothingLostOrDuplicated(kind, attachments, grouped) ==
    \A i \in 1..Len(attachments) :
        \A a \in AnchorsOfPos(kind, attachments[i]) :
            TimesGrouped(kind, grouped, attachments[i].name, a) = 1

\* Every grouped attachment is made of anchors of the attachment of its
\* glyph, and a ligature keeps its components
NothingAdded(kind, attachments, grouped) ==
    \A p \in PlacesOf(grouped) :
        \E i \in 1..Len(attachments) :
            /\ attachments[i].name = grouped[p[1]][p[2]].name
            /\ Len(grouped[p[1]][p[2]].marks) <= Len(attachments[i].marks)
            /\ kind = "liga" =>
                  /\ Len(grouped[p[1]][p[2]].marks) = Len(attachments[i].marks)
                  /\ \A c \in 1..Len(attachments[i].marks) :
                        Range(grouped[p[1]][p[2]].marks[c])
                            \subseteq Range(attachments[i].marks[c])
            /\ AnchorsOfPos(kind, grouped[p[1]][p[2]])
                  \subseteq AnchorsOfPos(kind, attachments[i])

\* C27: when the attachments are grouped, every anchor of every attachment
\* is in exactly one group, no group holds an anchor that was not in the
\* attachments, and a ligature attachment of a group has as many components
\* as the attachment it was made from.
C27_GroupingPartition ==
    WriteEnded =>
        /\ NothingLostOrDuplicated("base", context.markToBaseAttachments,
                                   context.groupedMarkToBaseAttachments)
        /\ NothingLostOrDuplicated("liga", context.markToLigaAttachments,
                                   context.groupedMarkToLigaAttachments)
        /\ NothingAdded("base", context.markToBaseAttachments,
                        context.groupedMarkToBaseAttachments)
        /\ NothingAdded("liga", context.markToLigaAttachments,
                        context.groupedMarkToLigaAttachments)

(***************************************************************************)
(* The mark classes of the keys and the mark glyphs of the keys.           *)
(***************************************************************************)
\* The anchors of the lists that are not mark anchors and have the key
BaseSideAnchors(key) ==
    UNION { { context.anchorLists[i][2][k] :
                k \in { n \in 1..Len(context.anchorLists[i][2]) :
                          /\ ~context.anchorLists[i][2][n].isMark
                          /\ context.anchorLists[i][2][n].key = key } } :
            i \in 1..Len(context.anchorLists) }

\* The mark glyph with a mark anchor of a key is in the class of the key,
\* which is the class of the anchors of the key on the base side
InClassOfKey(glyphName, key) ==
    /\ key \in DictKeys(context.markClasses)
    /\ glyphName \in ClassGlyphs(key)
    /\ \A a \in BaseSideAnchors(key) : a.markClass = DictVal(context.markClasses, key)

\* C28: when _write has returned, every mark glyph with a mark anchor of a
\* key is a member of the mark class that the anchors of that key on the
\* base side reference, also when a class of the feature file made the key
\* split part-way through its glyphs.
C28_MarkGlyphsInClass ==
    WriteReturned =>
        \A i \in 1..Len(context.anchorLists) :
            context.anchorLists[i][1] \in context.markGlyphNames =>
                \A k \in 1..Len(context.anchorLists[i][2]) :
                    context.anchorLists[i][2][k].isMark =>
                        InClassOfKey(context.anchorLists[i][1],
                                     context.anchorLists[i][2][k].key)

\* The pairs (glyph, anchor) of the contexts of a kind
PairsOfKind(kind) ==
    UNION { Range(ContextualDict(kind)[i][2]) : i \in 1..Len(ContextualDict(kind)) }

\* C29: when _write has ended, every (glyph, anchor) pair of the contextual
\* base and ligature anchors has a key with a mark class in
\* context.markClasses, and no KeyError was raised, also when the GDEF mark
\* class leaves out the glyphs with the mark anchor.
C29_ContextualKeysHaveClass ==
    WriteEnded =>
        /\ \A q \in PairsOfKind("base") \cup PairsOfKind("liga") :
              q[2].key \in DictKeys(context.markClasses)
        /\ raised # "KeyError"

(***************************************************************************)
(* Claims about the production names (under SpecProduction)                *)
(***************************************************************************)
\* The names the calls of _unique_name returned are pairwise distinct
ReturnedDistinct ==
    \A i, j \in 1..Len(uniqueCalls) :
        i # j => uniqueCalls[i].returned # uniqueCalls[j].returned

\* A name that was not in seen is returned as it is
FreshUnchanged ==
    \A i \in 1..Len(uniqueCalls) :
        uniqueCalls[i].name \notin DictKeys(uniqueCalls[i].seen)
            => uniqueCalls[i].returned = uniqueCalls[i].name

\* The production names of rename_map are pairwise distinct
RenameMapDistinct ==
    \A i, j \in 1..Len(rename_map) : i # j => rename_map[i][2] # rename_map[j][2]

\* C30: in every state of the loop of _build_production_names, the names
\* the calls of _unique_name on the shared dict seen have returned are
\* pairwise distinct, a name that was not in seen was returned unchanged,
\* and the production names of rename_map are pairwise distinct.
C30_UniqueNames ==
    /\ ReturnedDistinct
    /\ FreshUnchanged
    /\ RenameMapDistinct

\* The loop is over, three names were made, one of them was new and came
\* back unchanged, and for another the suffix seen[name] was taken and the
\* next one was used
C30_Witness ==
    /\ position = Len(glyphOrder)
    /\ Len(rename_map) = 3
    /\ \E i \in 1..Len(uniqueCalls) :
          uniqueCalls[i].name \notin DictKeys(uniqueCalls[i].seen)
    /\ \E i \in 1..Len(uniqueCalls) :
          /\ uniqueCalls[i].name \in DictKeys(uniqueCalls[i].seen)
          /\ uniqueCalls[i].returned
                # Suffixed(uniqueCalls[i].name,
                           DictVal(uniqueCalls[i].seen, uniqueCalls[i].name))

====
